---- MODULE Spec2Model ----
(***************************************************************************)
(* Model of bot/parsers/unified_log_parser.py (UnifiedLogParser): the      *)
(* per-(guild, server) line offsets, the cold/hot start decision, the      *)
(* line-by-line event extraction with its safety break, the player         *)
(* lifecycle/session maps, the durable parser_state document and the       *)
(* reset/cleanup operations.                                               *)
(*                                                                         *)
(* Strings that the code builds with f-strings (dictionary keys) are       *)
(* sequences of one-character strings, so that formatting and              *)
(* str.startswith are computed, not assumed.  A log line is the record of  *)
(* what each compiled pattern captures on it (<<>> when the pattern does   *)
(* not match).                                                             *)
(***************************************************************************)
EXTENDS Integers, Sequences, FiniteSets, TLC

VARIABLES
    remote,            \* [guild, server] -> lines of the remote Deadside.log
    alphabet,          \* the lines the game server may write (fixed per run)
    scheduled,         \* the (guild, server) pairs the scheduler invokes
    limit,             \* longest remote log of the run (fixed per run)
    guild_config,      \* guild id -> the guild document of db_manager.get_guild
    misconfigured,     \* the (guild, server) pairs whose descriptor lacks
                       \* host, username or password
    run,               \* run_log_parser: the servers its loops have yet to reach
    clock,             \* datetime.now(timezone.utc)
    db,                \* parser_state document: its 'file_states' field
    loaded,            \* _load_persistent_state has completed
    file_states,       \* self.file_states
    player_sessions,   \* self.player_sessions
    player_lifecycle,  \* self.player_lifecycle
    sftp_connections,  \* self.sftp_connections
    cyc,               \* the parse_server_logs invocations: position and locals
    emitted,           \* history: key -> line index -> cycles that extracted it
    seen,              \* history: player key -> name on the last queue-join
                       \* line a cold or hot pass of this process has read
    save_failed,       \* history: a save of the document has failed
    sent,              \* history: the channel.send calls, <<channel id, embed>>
    resolved,          \* the last get_server_channel call and what it returned
    loading,           \* the _load_persistent_state task: position and the
                       \* document find_one has returned
    asked_mission,     \* the mission id the mission helpers are called with
    mission_level,     \* what get_mission_level returned for it
    mission_name       \* what normalize_mission_name returned for it

config == <<alphabet, scheduled, limit, guild_config, misconfigured>>

notifier == <<sent, resolved>>

missions == <<asked_mission, mission_level, mission_name>>

vars == <<remote, config, run, notifier, missions, clock, db, loaded, loading,
          file_states, player_sessions, player_lifecycle, sftp_connections,
          cyc, emitted, seen, save_failed>>

----------------------------------------------------------------------------
\* Bounds of the model.

\* Longest remote log file, in lines.
MaxLines == 3
\* Longest remote log file where only player lines are written.
MaxPlayerLines == 4
\* Longest remote log file where two cycles run at once.
MaxConcurrentLines == 2
\* Longest remote log file where several guilds are served.
MaxGuildLines == 2
\* Number of times the wall clock advances.
MaxClock == 1
\* Longest remote log file where the slices of a hot start are followed
\* line by line.
MaxSliceLines == 4

----------------------------------------------------------------------------
\* Strings.

Digits == <<"0", "1", "2", "3", "4", "5", "6", "7", "8", "9">>

\* str(n) / f"{n}" for a non-negative integer.
RECURSIVE Str(_)
Str(n) ==
    IF n < 10 THEN <<Digits[n + 1]>>
    ELSE Str(n \div 10) \o <<Digits[(n % 10) + 1]>>

\* k.startswith(prefix)
StartsWith(k, prefix) ==
    /\ Len(k) >= Len(prefix)
    /\ SubSeq(k, 1, Len(prefix)) = prefix

\* The empty dict.
EmptyDict == [k \in {} |-> 0]

\* d with d[k] = v assigned.
DictSet(d, k, v) == [x \in DOMAIN d \cup {k} |-> IF x = k THEN v ELSE d[x]]

\* d with every key of ks deleted.
DictDel(d, ks) == [x \in DOMAIN d \ ks |-> d[x]]

----------------------------------------------------------------------------
\* Guilds, servers, players.

\* Discord guild ids; 12 is a string prefix of 123.
Guilds == {12, 123}

\* Server '_id' values, as str(server.get('_id')).
ServerA == <<"a">>
ServerB == <<"b">>
Servers == {ServerA, ServerB}

\* server.get('host') and server.get('port', 22)
Host(server_id) == <<"h">> \o server_id
DefaultPort == 22

\* EOS ids captured by the player patterns ([a-f0-9]+).
PlayerX == <<"e", "0">>
Players == {PlayerX}

UnknownPlayer == "Unknown Player"

\* f"{guild_id}_{server_id}"
ServerKey(guild_id, server_id) == Str(guild_id) \o <<"_">> \o server_id

\* f"{guild_id}_{player_id}"
PlayerKey(guild_id, player_id) == Str(guild_id) \o <<"_">> \o player_id

\* f"{guild_id}_{server_id}_{host}_{ssh_port}"
ConnectionKey(guild_id, server_id) ==
    Str(guild_id) \o <<"_">> \o server_id \o <<"_">> \o Host(server_id)
        \o <<"_">> \o Str(DefaultPort)

\* Mutant of GuildPrefix: the separator is left out of the prefix.
GuildPrefixNoSeparator(guild_id) == Str(guild_id)

\* f"{guild_id}_"
GuildPrefix(guild_id) == Str(guild_id) \o <<"_">>

----------------------------------------------------------------------------
\* Log lines: what the compiled patterns capture on a line.

NoMatch == <<>>

Line(respawn, state_change, queue_join, registered, disconnect) ==
    [mission_respawn      |-> respawn,
     mission_state_change |-> state_change,
     player_queue_join    |-> queue_join,
     player_registered    |-> registered,
     player_disconnect    |-> disconnect]

MissionId == "GA_Bunker_01_Mis1"

PlainLine      == Line(NoMatch, NoMatch, NoMatch, NoMatch, NoMatch)
ReadyLine      == Line(NoMatch, <<MissionId, "READY">>, NoMatch, NoMatch, NoMatch)
RespawnLine    == Line(<<MissionId, 30>>, NoMatch, NoMatch, NoMatch, NoMatch)
\* A mission that respawns at once.
RespawnNowLine == Line(<<MissionId, 0>>, NoMatch, NoMatch, NoMatch, NoMatch)
\* The seconds captured by (\d+) when they are more digits than int()
\* converts: int(respawn_time) raises ValueError.
Overlong == -1
\* A respawn line with overlong seconds, on which a player registers too.
OverlongLine   == Line(<<MissionId, Overlong>>, NoMatch, NoMatch, <<PlayerX>>, NoMatch)
QueueAlice     == Line(NoMatch, NoMatch, <<PlayerX, "Alice">>, NoMatch, NoMatch)
QueueBob       == Line(NoMatch, NoMatch, <<PlayerX, "Bob">>, NoMatch, NoMatch)
RegisteredLine == Line(NoMatch, NoMatch, NoMatch, <<PlayerX>>, NoMatch)
DisconnectLine == Line(NoMatch, NoMatch, NoMatch, NoMatch, <<PlayerX>>)
\* A line on which the queue-join and the registration patterns match.
JoinLine       == Line(NoMatch, NoMatch, <<PlayerX, "Alice">>, <<PlayerX>>, NoMatch)
\* A line on which four patterns match at once.
CraftedLine    == Line(<<MissionId, 30>>, <<MissionId, "READY">>, NoMatch,
                       <<PlayerX>>, <<PlayerX>>)

MixedLines   == {QueueAlice, RegisteredLine, DisconnectLine, ReadyLine}
PlayerLines  == {QueueAlice, RegisteredLine, DisconnectLine}
CraftedLines == {CraftedLine, RegisteredLine, PlainLine}
GuildLines   == {JoinLine}
StorageLines == {RegisteredLine, ReadyLine}

----------------------------------------------------------------------------
\* Embeds (the event records handed to the notifier).

None == <<>>

\* Python truthiness of an Optional[int].
Truthy(respawn_time) == respawn_time # None /\ respawn_time[1] # 0

MissionEmbed(title, mission_id, state, respawn_time) ==
    [kind         |-> "mission",
     title        |-> title,
     mission_id   |-> mission_id,
     state        |-> state,
     respawn_time |-> respawn_time,
     player_id    |-> <<>>,
     player_name  |-> ""]

ConnectionEmbed(title, player_name, player_id) ==
    [kind         |-> "connection",
     title        |-> title,
     mission_id   |-> "",
     state        |-> "",
     respawn_time |-> None,
     player_id    |-> player_id,
     player_name  |-> player_name]

\* process_mission_event: the embed for a mission event.
process_mission_event(mission_id, state, respawn_time) ==
    IF state = "READY"
    THEN MissionEmbed("Mission Available", mission_id, "READY", None)
    ELSE IF state = "IN_PROGRESS"
    THEN MissionEmbed("Mission In Progress", mission_id, "IN_PROGRESS", None)
    ELSE IF state = "COMPLETED"
    THEN MissionEmbed("Mission Completed", mission_id, "COMPLETED", None)
    ELSE IF Truthy(respawn_time)
    THEN MissionEmbed("Mission Respawning", mission_id, "RESPAWN", respawn_time)
    ELSE MissionEmbed("Mission Update", mission_id, state, None)

\* process_player_connection, event_type == 'joined': the session written.
JoinedSession(guild_id, player_id, player_name, now) ==
    [player_id   |-> player_id,
     player_name |-> player_name,
     guild_id    |-> Str(guild_id),
     joined_at   |-> now,
     status      |-> "online",
     left_at     |-> None]

\* Mutant of DisconnectedSessions: the session of the player is dropped.
DisconnectedSessionsDropped(sessions, session_key, now) ==
    DictDel(sessions, {session_key})

\* process_player_connection, event_type == 'disconnected': the session map.
DisconnectedSessions(sessions, session_key, now) ==
    IF session_key \in DOMAIN sessions
    THEN [sessions EXCEPT ![session_key].status = "offline",
                          ![session_key].left_at = <<now>>]
    ELSE sessions

----------------------------------------------------------------------------
\* parse_log_content: what one iteration of the line loop does.
\* st is [embeds, sources, processed_events, player_lifecycle,
\* player_sessions]; src is the index of the line in the file.

\* embeds.append(embed); processed_events += 1
Emit(st, embed, src) ==
    [st EXCEPT !.embeds = Append(@, embed),
               !.sources = Append(@, src),
               !.processed_events = @ + 1]

\* The safety check: processed_events > len(lines) * 2
SafetyBreak(processed_events, n_lines) == processed_events > n_lines * 2

\* The loop over the mission_ patterns: mission_respawn, then
\* mission_state_change; the other mission_ patterns 'continue'.  The
\* 'break' after an embed leaves this loop only.
MissionEvents(st, line, n_lines, src) ==
    LET r1 == IF line.mission_respawn # NoMatch
              THEN Emit(st, process_mission_event(line.mission_respawn[1],
                            "RESPAWN", <<line.mission_respawn[2]>>), src)
              ELSE st
        brk == /\ line.mission_respawn # NoMatch
               /\ SafetyBreak(r1.processed_events, n_lines)
    IN  IF ~brk /\ line.mission_state_change # NoMatch
        THEN Emit(r1, process_mission_event(line.mission_state_change[1],
                          line.mission_state_change[2], None), src)
        ELSE r1

\* player_queue_join: remember the name for the registration.
QueueJoin(st, guild_id, line, now) ==
    IF line.player_queue_join # NoMatch
    THEN [st EXCEPT !.player_lifecycle =
            DictSet(@, PlayerKey(guild_id, line.player_queue_join[1]),
                    [name |-> line.player_queue_join[2], queue_joined |-> now])]
    ELSE st

\* The name a registration line resolves to.
RegisteredName(lifecycle, player_key) ==
    IF player_key \in DOMAIN lifecycle THEN lifecycle[player_key].name
    ELSE UnknownPlayer

\* player_registered: 'joined' event with the name from the lifecycle cache.
Registered(st, guild_id, line, src, now) ==
    IF line.player_registered # NoMatch
    THEN LET player_id   == line.player_registered[1]
             player_key  == PlayerKey(guild_id, player_id)
             player_name == RegisteredName(st.player_lifecycle, player_key)
             joined      == [st EXCEPT !.player_sessions =
                                DictSet(@, player_key,
                                    JoinedSession(guild_id, player_id, player_name, now))]
         IN  Emit(joined, ConnectionEmbed("Player Connected", player_name, player_id), src)
    ELSE st

\* Mutant of DisconnectName: the lifecycle cache is consulted first.
DisconnectNameCacheFirst(sessions, lifecycle, player_key) ==
    IF player_key \in DOMAIN lifecycle THEN lifecycle[player_key].name
    ELSE IF player_key \in DOMAIN sessions THEN sessions[player_key].player_name
    ELSE UnknownPlayer

\* The name a disconnect line resolves to.
DisconnectName(sessions, lifecycle, player_key) ==
    IF player_key \in DOMAIN sessions THEN sessions[player_key].player_name
    ELSE IF player_key \in DOMAIN lifecycle THEN lifecycle[player_key].name
    ELSE UnknownPlayer

\* player_disconnect: 'disconnected' event, session marked offline.
Disconnected(st, guild_id, line, src, now) ==
    IF line.player_disconnect # NoMatch
    THEN LET player_id   == line.player_disconnect[1]
             player_key  == PlayerKey(guild_id, player_id)
             player_name == DisconnectName(st.player_sessions, st.player_lifecycle,
                                           player_key)
             left        == [st EXCEPT !.player_sessions =
                                DisconnectedSessions(@, player_key, now)]
         IN  Emit(left, ConnectionEmbed("Player Disconnected", player_name, player_id), src)
    ELSE st

\* One iteration of 'for line_idx, line in enumerate(lines)'.
ProcessLine(st, guild_id, line, n_lines, src, now) ==
    Disconnected(
        Registered(
            QueueJoin(MissionEvents(st, line, n_lines, src), guild_id, line, now),
            guild_id, line, src, now),
        guild_id, line, src, now)

\* _process_cold_start: the number of lines on which a mission_ pattern
\* matches (events_parsed); nothing else is computed from the lines.
RECURSIVE ColdEventsParsed(_)
ColdEventsParsed(lines) ==
    IF lines = <<>> THEN 0
    ELSE (IF \/ Head(lines).mission_respawn # NoMatch
             \/ Head(lines).mission_state_change # NoMatch
          THEN 1 ELSE 0) + ColdEventsParsed(Tail(lines))

----------------------------------------------------------------------------
\* Routing of embeds to channels.

\* The key 'default' of server_channels.
Default == <<"d", "e", "f", "a", "u", "l", "t">>

\* d.get(k): <<d[k]>> when the key is there, None when it is not.
DictGet(d, k) == IF k \in DOMAIN d THEN <<d[k]>> ELSE None

ChannelTypes == {"events", "connections"}

\* A guild document: its 'server_channels' and 'channels' fields, a field
\* that is missing being the empty dictionary the code's .get falls back to.
\* A channel id of 0 stands for the ids Python takes as false.
GuildDocument(server_channels, channels) ==
    [server_channels |-> server_channels, channels |-> channels]

\* Server a has its own events and connections channels.
RoutedGuildConfig ==
    [g \in Guilds |->
        <<GuildDocument(
              [k \in {ServerA} |-> [t \in ChannelTypes |->
                                        IF t = "events" THEN 101 ELSE 102]],
              EmptyDict)>>]

\* The channel ids bot.get_channel finds.
ExistingChannels == {101, 102, 103}

\* Mutant of get_server_channel: the 'default' entry is tried first.
get_server_channel_default_first(guild_id, server_id, channel_type) ==
    LET doc == guild_config[guild_id]
    IN  IF doc = None THEN None
        ELSE LET server_channels == doc[1].server_channels
                 specific == IF server_id \in DOMAIN server_channels
                             THEN DictGet(server_channels[server_id], channel_type)
                             ELSE None
                 default  == IF Default \in DOMAIN server_channels
                             THEN DictGet(server_channels[Default], channel_type)
                             ELSE None
             IN  IF Truthy(default) THEN default
                 ELSE IF Truthy(specific) THEN specific
                 ELSE DictGet(doc[1].channels, channel_type)

\* get_server_channel: None, or <<channel id>>.
get_server_channel(guild_id, server_id, channel_type) ==
    LET doc == guild_config[guild_id]
    IN  IF doc = None THEN None
        ELSE LET server_channels == doc[1].server_channels
                 specific == IF server_id \in DOMAIN server_channels
                             THEN DictGet(server_channels[server_id], channel_type)
                             ELSE None
                 default  == IF Default \in DOMAIN server_channels
                             THEN DictGet(server_channels[Default], channel_type)
                             ELSE None
             IN  IF Truthy(specific) THEN specific
                 ELSE IF Truthy(default) THEN default
                 ELSE DictGet(doc[1].channels, channel_type)

\* A call of get_server_channel on its own.
ResolveChannel(guild_id, server_id, channel_type) ==
    /\ resolved' = <<guild_id, server_id, channel_type,
                     get_server_channel(guild_id, server_id, channel_type)>>
    /\ UNCHANGED <<remote, config, run, sent, clock, db, loaded, file_states,
                   player_sessions, player_lifecycle, sftp_connections, cyc,
                   emitted, seen, save_failed, missions, loading>>

\* send_log_embeds: channel_mapping.
ChannelMapping ==
    [embed_type \in {"mission_event", "airdrop_event", "helicrash_event",
                     "trader_event", "vehicle_event", "player_connection",
                     "player_disconnection"} |->
        IF embed_type \in {"player_connection", "player_disconnection"}
        THEN "connections" ELSE "events"]

\* embed_data.get exists: what parse_log_content returns are the
\* discord.Embed objects of process_mission_event and
\* process_player_connection, and a discord.Embed has no method 'get'.
IsDict(embed_data) == embed_data.kind \notin {"mission", "connection"}

\* send_log_embeds: the channel.send calls it makes, <<channel id, embed>>.
\* The AttributeError of embed_data.get is caught outside the loop, which
\* ends there.
RECURSIVE send_log_embeds(_, _, _)
send_log_embeds(guild_id, server_id, embeds_data) ==
    IF embeds_data = <<>> THEN <<>>
    ELSE LET embed_data == Head(embeds_data)
         IN  IF ~IsDict(embed_data) THEN <<>>
             ELSE LET channel_type == DictGet(ChannelMapping, embed_data.type)
                      channel_id   == IF channel_type = None THEN None
                                      ELSE get_server_channel(guild_id, server_id,
                                                              channel_type[1])
                      rest == send_log_embeds(guild_id, server_id, Tail(embeds_data))
                  IN  IF Truthy(channel_id) /\ channel_id[1] \in ExistingChannels
                      THEN <<<<channel_id[1], embed_data.embed>>>> \o rest
                      ELSE rest

----------------------------------------------------------------------------
\* Mission helpers.  Mission ids and names are strings, taken apart with
\* Len and SubSeq and put together with \o.

UpperCase == "ABCDEFGHIJKLMNOPQRSTUVWXYZ"
LowerCase == "abcdefghijklmnopqrstuvwxyz"

Char(s, i) == SubSeq(s, i, i)

\* k in s
Contains(s, k) ==
    \E i \in 1..(Len(s) - Len(k) + 1) : SubSeq(s, i, i + Len(k) - 1) = k

Positions(s, c) == {i \in 1..Len(s) : Char(s, i) = c}

Translate(c, from, to) ==
    IF Positions(from, c) = {} THEN c
    ELSE Char(to, CHOOSE i \in Positions(from, c) : TRUE)

\* str.lower
RECURSIVE Lower(_)
Lower(s) ==
    IF s = "" THEN ""
    ELSE Translate(Char(s, 1), UpperCase, LowerCase) \o Lower(SubSeq(s, 2, Len(s)))

\* str.capitalize
Capitalize(s) ==
    IF s = "" THEN ""
    ELSE Translate(Char(s, 1), LowerCase, UpperCase) \o Lower(SubSeq(s, 2, Len(s)))

\* str.isalpha
IsAlpha(s) ==
    /\ s # ""
    /\ \A i \in 1..Len(s) :
           Positions(UpperCase, Char(s, i)) \cup Positions(LowerCase, Char(s, i)) # {}

\* str.split('_')
RECURSIVE Split(_)
Split(s) ==
    LET underscores == Positions(s, "_")
    IN  IF underscores = {} THEN <<s>>
        ELSE LET i == CHOOSE i \in underscores : \A j \in underscores : i <= j
             IN  <<SubSeq(s, 1, i - 1)>> \o Split(SubSeq(s, i + 1, Len(s)))

\* mission_id.split('_')[-1]
LastPart(mission_id) == Split(mission_id)[Len(Split(mission_id))]

\* str.replace(old, '')
RECURSIVE Remove(_, _)
Remove(s, old) ==
    IF Len(s) < Len(old) THEN s
    ELSE IF SubSeq(s, 1, Len(old)) = old
         THEN Remove(SubSeq(s, Len(old) + 1, Len(s)), old)
         ELSE Char(s, 1) \o Remove(SubSeq(s, 2, Len(s)), old)

\* ' '.join(parts)
RECURSIVE Join(_)
Join(parts) ==
    IF parts = <<>> THEN ""
    ELSE IF Len(parts) = 1 THEN parts[1]
    ELSE parts[1] \o " " \o Join(Tail(parts))

\* [part.capitalize() for part in parts if part.isalpha()]
RECURSIVE ReadableParts(_)
ReadableParts(parts) ==
    IF parts = <<>> THEN <<>>
    ELSE IF IsAlpha(Head(parts))
         THEN <<Capitalize(Head(parts))>> \o ReadableParts(Tail(parts))
         ELSE ReadableParts(Tail(parts))

\* _get_complete_mission_mappings
mission_mappings ==
       ("GA_Airport_mis_01_SFPSACMission" :> "Airport Mission #1")
    @@ ("GA_Airport_mis_02_SFPSACMission" :> "Airport Mission #2")
    @@ ("GA_Airport_mis_03_SFPSACMission" :> "Airport Mission #3")
    @@ ("GA_Airport_mis_04_SFPSACMission" :> "Airport Mission #4")
    @@ ("GA_Beregovoy_Mis1" :> "Beregovoy Settlement Mission")
    @@ ("GA_Settle_05_ChernyLog_Mis1" :> "Cherny Log Settlement Mission")
    @@ ("GA_Settle_09_Mis_1" :> "Settlement Mission #9")
    @@ ("GA_Military_02_Mis1" :> "Military Base Mission #2")
    @@ ("GA_Military_03_Mis_01" :> "Military Base Mission #3")
    @@ ("GA_Military_04_Mis1" :> "Military Base Mission #4")
    @@ ("GA_Military_04_Mis_2" :> "Military Base Mission #4B")
    @@ ("GA_Ind_01_m1" :> "Industrial Zone Mission #1")
    @@ ("GA_Ind_02_Mis_1" :> "Industrial Zone Mission #2")
    @@ ("GA_PromZone_6_Mis_1" :> "Industrial Zone Mission #6")
    @@ ("GA_PromZone_Mis_01" :> "Industrial Zone Mission A")
    @@ ("GA_PromZone_Mis_02" :> "Industrial Zone Mission B")
    @@ ("GA_KhimMash_Mis_01" :> "Chemical Plant Mission #1")
    @@ ("GA_KhimMash_Mis_02" :> "Chemical Plant Mission #2")
    @@ ("GA_Kamensk_Ind_3_Mis_1" :> "Kamensk Industrial Mission")
    @@ ("GA_Kamensk_Mis_1" :> "Kamensk City Mission #1")
    @@ ("GA_Kamensk_Mis_2" :> "Kamensk City Mission #2")
    @@ ("GA_Kamensk_Mis_3" :> "Kamensk City Mission #3")
    @@ ("GA_Krasnoe_Mis_1" :> "Krasnoe City Mission")
    @@ ("GA_Vostok_Mis_1" :> "Vostok City Mission")
    @@ ("GA_Bunker_01_Mis1" :> "Underground Bunker Mission")
    @@ ("GA_Lighthouse_02_Mis1" :> "Lighthouse Mission #2")
    @@ ("GA_Elevator_Mis_1" :> "Elevator Complex Mission #1")
    @@ ("GA_Elevator_Mis_2" :> "Elevator Complex Mission #2")
    @@ ("GA_Sawmill_01_Mis1" :> "Sawmill Mission #1")
    @@ ("GA_Sawmill_02_1_Mis1" :> "Sawmill Mission #2A")
    @@ ("GA_Sawmill_03_Mis_01" :> "Sawmill Mission #3")
    @@ ("GA_Bochki_Mis_1" :> "Barrel Storage Mission")
    @@ ("GA_Dubovoe_0_Mis_1" :> "Dubovoe Resource Mission")

\* Mutant of FallbackRules: the bunker rule is tried before the others.
FallbackRulesBunkerFirst ==
    << <<{"_Bunker_"}, "Bunker">>,
       <<{"_Airport_"}, "Airport">>,
       <<{"_Military_"}, "Military">>,
       <<{"_Settle_"}, "Settlement">>,
       <<{"_Ind_", "_PromZone_"}, "Industrial">>,
       <<{"_KhimMash_"}, "Chemical Plant">>,
       <<{"_Sawmill_"}, "Sawmill">> >>

\* The keyword rules of normalize_mission_name in the order of its elif
\* chain: the substrings looked for and the category named.
FallbackRules ==
    << <<{"_Airport_"}, "Airport">>,
       <<{"_Military_"}, "Military">>,
       <<{"_Settle_"}, "Settlement">>,
       <<{"_Ind_", "_PromZone_"}, "Industrial">>,
       <<{"_KhimMash_"}, "Chemical Plant">>,
       <<{"_Bunker_"}, "Bunker">>,
       <<{"_Sawmill_"}, "Sawmill">> >>

RuleMatches(rule, mission_id) == \E k \in rule[1] : Contains(mission_id, k)

\* The last else of normalize_mission_name.
ReadableName(mission_id) ==
    LET parts == Split(Remove(Remove(Remove(mission_id, "GA_"), "_Mis"), "_mis"))
        readable_parts == ReadableParts(parts)
    IN  IF readable_parts # <<>>
        THEN Join(readable_parts) \o " Mission"
        ELSE "Special Mission (" \o mission_id \o ")"

normalize_mission_name(mission_id) ==
    IF mission_id \in DOMAIN mission_mappings
    THEN mission_mappings[mission_id]
    ELSE LET matching == {i \in DOMAIN FallbackRules :
                             RuleMatches(FallbackRules[i], mission_id)}
         IN  IF matching # {}
             THEN LET first == CHOOSE i \in matching : \A j \in matching : i <= j
                  IN  FallbackRules[first][2] \o " Mission ("
                          \o LastPart(mission_id) \o ")"
             ELSE ReadableName(mission_id)

\* The keywords of get_mission_level, by the level they give.
HighTier       == {"military", "bunker", "khimmash"}
HighMediumTier == {"airport", "promzone", "kamensk"}
MediumTier     == {"ind_", "industrial"}
LowMediumTier  == {"sawmill", "lighthouse", "elevator"}

AnyKeyword(keywords, s) == \E keyword \in keywords : Contains(s, keyword)

\* Mutant of get_mission_level: the low-medium tier is looked for first.
get_mission_level_low_first(mission_id) ==
    IF AnyKeyword(LowMediumTier, Lower(mission_id)) THEN 2
    ELSE IF AnyKeyword(HighTier, Lower(mission_id)) THEN 5
    ELSE IF AnyKeyword(HighMediumTier, Lower(mission_id)) THEN 4
    ELSE IF AnyKeyword(MediumTier, Lower(mission_id)) THEN 3
    ELSE 1

get_mission_level(mission_id) ==
    IF AnyKeyword(HighTier, Lower(mission_id)) THEN 5
    ELSE IF AnyKeyword(HighMediumTier, Lower(mission_id)) THEN 4
    ELSE IF AnyKeyword(MediumTier, Lower(mission_id)) THEN 3
    ELSE IF AnyKeyword(LowMediumTier, Lower(mission_id)) THEN 2
    ELSE 1

\* The helpers are called with the mission id at hand.
GetMissionLevel ==
    /\ mission_level' = <<get_mission_level(asked_mission)>>
    /\ UNCHANGED <<remote, config, run, notifier, asked_mission, mission_name,
                   clock, db, loaded, loading, file_states, player_sessions,
                   player_lifecycle, sftp_connections, cyc, emitted, seen,
                   save_failed>>

NormalizeMissionName ==
    /\ mission_name' = <<normalize_mission_name(asked_mission)>>
    /\ UNCHANGED <<remote, config, run, notifier, asked_mission, mission_level,
                   clock, db, loaded, loading, file_states, player_sessions,
                   player_lifecycle, sftp_connections, cyc, emitted, seen,
                   save_failed>>

----------------------------------------------------------------------------
\* State after construction (__init__): every dictionary empty, the load of
\* the persistent state scheduled but not yet run.

Workers == {1, 2}

\* run_log_parser awaits one parse_server_logs at a time.
Sequential == {1}

AllKeys == Guilds \X Servers

IdleCycle ==
    [pc               |-> "idle",
     guild_id         |-> 0,
     server_id        |-> <<>>,
     content          |-> <<>>,
     lines            |-> <<>>,
     first            |-> 0,
     line_idx         |-> 0,
     processed_events |-> 0,
     embeds           |-> <<>>,
     sources          |-> <<>>,
     cleaned          |-> FALSE,
     in_cache         |-> FALSE]

\* The _load_persistent_state task before its first step.
LoadIdle == [pc |-> "start", document |-> EmptyDict]

\* broken: the servers whose document lacks the host, the username or the
\* password; document: the 'file_states' field of the parser_state
\* document an earlier process has saved; logs: the remote logs.
InitStored(lines, keys, longest, broken, document, logs) ==
    /\ alphabet = lines
    /\ scheduled = keys
    /\ limit = longest
    /\ guild_config = RoutedGuildConfig
    /\ misconfigured = broken
    /\ run = <<>>
    /\ sent = <<>>
    /\ resolved = None
    /\ loading = LoadIdle
    /\ asked_mission = ""
    /\ mission_level = None
    /\ mission_name = None
    /\ remote = logs
    /\ clock = 0
    /\ db = document
    /\ loaded = FALSE
    /\ file_states = EmptyDict
    /\ player_sessions = EmptyDict
    /\ player_lifecycle = EmptyDict
    /\ sftp_connections = EmptyDict
    /\ cyc = [w \in Workers |-> IdleCycle]
    /\ emitted = [k \in AllKeys |-> [i \in 0..(longest - 1) |-> 0]]
    /\ seen = EmptyDict
    /\ save_failed = FALSE

InitConfigured(lines, keys, longest, broken) ==
    InitStored(lines, keys, longest, broken, EmptyDict,
               [k \in AllKeys |-> <<>>])

InitWith(lines, keys, longest) == InitConfigured(lines, keys, longest, {})

Init == InitWith(MixedLines, {<<12, ServerA>>}, MaxLines)

----------------------------------------------------------------------------
\* Environment.

\* The game server appends a line to its log.
AppendLine(k, line) ==
    /\ k \in scheduled
    /\ line \in alphabet
    /\ Len(remote[k]) < limit
    /\ remote' = [remote EXCEPT ![k] = Append(@, line)]
    /\ UNCHANGED <<config, run, notifier, clock, db, loaded, file_states,
                   player_sessions, player_lifecycle, sftp_connections, cyc,
                   emitted, seen, save_failed, missions, loading>>

\* The game server starts its log file anew (rotation).
Truncate(k) ==
    /\ k \in scheduled
    /\ remote[k] # <<>>
    /\ remote' = [remote EXCEPT ![k] = <<>>]
    /\ UNCHANGED <<config, run, notifier, clock, db, loaded, file_states,
                   player_sessions, player_lifecycle, sftp_connections, cyc,
                   emitted, seen, save_failed, missions, loading>>

\* The connection of a cached handle is lost: the handle stays in the cache
\* and every use of it fails.
ConnectionLost(connection_key) ==
    /\ connection_key \in DOMAIN sftp_connections
    /\ sftp_connections[connection_key] = "open"
    /\ sftp_connections' = [sftp_connections EXCEPT ![connection_key] = "lost"]
    /\ UNCHANGED <<remote, config, run, notifier, clock, db, loaded,
                   file_states, player_sessions, player_lifecycle, cyc,
                   emitted, seen, save_failed, missions, loading>>

\* Time passes.
Tick ==
    /\ clock < MaxClock
    /\ clock' = clock + 1
    /\ UNCHANGED <<remote, config, run, notifier, db, loaded, file_states,
                   player_sessions, player_lifecycle, sftp_connections, cyc,
                   emitted, seen, save_failed, missions, loading>>

\* The process dies and is started again: memory is lost, __init__ runs.
Restart ==
    /\ loaded' = FALSE
    /\ file_states' = EmptyDict
    /\ player_sessions' = EmptyDict
    /\ player_lifecycle' = EmptyDict
    /\ sftp_connections' = EmptyDict
    /\ cyc' = [w \in Workers |-> IdleCycle]
    /\ seen' = EmptyDict
    /\ run' = <<>>
    /\ loading' = LoadIdle
    /\ UNCHANGED <<remote, config, notifier, clock, db, emitted, save_failed,
                   missions>>

----------------------------------------------------------------------------
\* Offset store.

\* _load_persistent_state: file_states = state_doc['file_states'], or {}
\* when there is no document.
LoadedStates(document) == document

LoadPersistentState ==
    /\ ~loaded
    /\ file_states' = LoadedStates(db)
    /\ loaded' = TRUE
    /\ UNCHANGED <<remote, config, run, notifier, clock, db, player_sessions,
                   player_lifecycle, sftp_connections, cyc, emitted, seen,
                   save_failed, missions, loading>>

\* _load_persistent_state step by step.  The task created in __init__
\* runs up to its await: self.file_states = {} and find_one is called.
LoadBegin ==
    /\ ~loaded
    /\ loading.pc = "start"
    /\ file_states' = EmptyDict
    /\ loading' = [loading EXCEPT !.pc = "find"]
    /\ UNCHANGED <<remote, config, run, notifier, missions, clock, db, loaded,
                   player_sessions, player_lifecycle, sftp_connections, cyc,
                   emitted, seen, save_failed>>

\* The database answers find_one with the document it holds now.
LoadFind ==
    /\ loading.pc = "find"
    /\ loading' = [pc |-> "assign", document |-> db]
    /\ UNCHANGED <<remote, config, run, notifier, missions, clock, db, loaded,
                   file_states, player_sessions, player_lifecycle,
                   sftp_connections, cyc, emitted, seen, save_failed>>

\* The task is resumed with the answer: 'if state_doc and 'file_states' in
\* state_doc: self.file_states = state_doc['file_states']'.
LoadEnd ==
    /\ loading.pc = "assign"
    /\ file_states' = IF loading.document # EmptyDict
                      THEN LoadedStates(loading.document)
                      ELSE file_states
    /\ loaded' = TRUE
    /\ loading' = [pc |-> "done", document |-> EmptyDict]
    /\ UNCHANGED <<remote, config, run, notifier, missions, clock, db,
                   player_sessions, player_lifecycle, sftp_connections, cyc,
                   emitted, seen, save_failed>>

\* _load_persistent_state, find_one raises: file_states = {}
LoadFails ==
    /\ ~loaded
    /\ file_states' = EmptyDict
    /\ loaded' = TRUE
    /\ UNCHANGED <<remote, config, run, notifier, clock, db, player_sessions,
                   player_lifecycle, sftp_connections, cyc, emitted, seen,
                   save_failed, missions, loading>>

\* The FileState both start modes write.
FileState(total_lines, now) == [line_count |-> total_lines, last_updated |-> now]

\* stored_state.get('line_count', 0) of file_states.get(server_key, {})
LastProcessed(states, server_key) ==
    IF server_key \in DOMAIN states THEN states[server_key].line_count ELSE 0

\* [k for k in state_dict.keys() if k.startswith(guild_prefix)]
KeysToRemove(state_dict, guild_id) ==
    {k \in DOMAIN state_dict : StartsWith(k, GuildPrefix(guild_id))}

\* reset_file_states(server_key, guild_id); an argument not given is None.
reset_file_states(server_key, guild_id) ==
    /\ file_states' =
           IF server_key # <<>>
           THEN DictDel(file_states, {server_key})
           ELSE IF Truthy(guild_id)
           THEN DictDel(file_states, KeysToRemove(file_states, guild_id[1]))
           ELSE EmptyDict
    /\ UNCHANGED <<remote, config, run, notifier, clock, db, loaded,
                   player_sessions, player_lifecycle, sftp_connections, cyc,
                   emitted, seen, save_failed, missions, loading>>

\* cleanup_guild_state(guild_id): server_status, last_log_position and
\* log_file_hashes are never written and stay empty.  History: a cycle of
\* the guild that is suspended at an await is marked.
cleanup_guild_state(guild_id) ==
    /\ file_states' = DictDel(file_states, KeysToRemove(file_states, guild_id))
    /\ player_sessions' =
           DictDel(player_sessions, KeysToRemove(player_sessions, guild_id))
    /\ player_lifecycle' =
           DictDel(player_lifecycle, KeysToRemove(player_lifecycle, guild_id))
    /\ sftp_connections' =
           DictDel(sftp_connections, KeysToRemove(sftp_connections, guild_id))
    /\ seen' = DictDel(seen, {PlayerKey(guild_id, p) : p \in Players})
    /\ cyc' = [w \in Workers |->
                  IF cyc[w].pc # "idle" /\ cyc[w].guild_id = guild_id
                  THEN [cyc[w] EXCEPT !.cleaned = TRUE]
                  ELSE cyc[w]]
    /\ UNCHANGED <<remote, config, run, notifier, clock, db, loaded, emitted,
                   save_failed, missions, loading>>

----------------------------------------------------------------------------
\* parse_server_logs, one step per stretch of code between two awaits.

Key(c) == ServerKey(c.guild_id, c.server_id)

\* The scheduler invokes parse_server_logs(guild_id, server): the code runs
\* without an await up to 'if connection_key not in self.sftp_connections',
\* whose outcome the cycle keeps.
StartCycle(w, guild_id, server_id) ==
    /\ cyc[w].pc = "idle"
    /\ <<guild_id, server_id>> \in scheduled
    /\ <<guild_id, server_id>> \notin misconfigured
    /\ cyc' = [cyc EXCEPT ![w] =
                  [IdleCycle EXCEPT
                     !.pc = "connect",
                     !.guild_id = guild_id,
                     !.server_id = server_id,
                     !.in_cache = ConnectionKey(guild_id, server_id)
                                      \in DOMAIN sftp_connections]]
    /\ UNCHANGED <<remote, config, notifier, clock, db, loaded, file_states,
                   player_sessions, player_lifecycle, sftp_connections,
                   emitted, seen, save_failed, missions, loading>>

\* connection_key in self.sftp_connections: the cached connection is used.
ConnectReuse(w) ==
    /\ cyc[w].pc = "connect"
    /\ cyc[w].in_cache
    /\ cyc' = [cyc EXCEPT ![w].pc = "fetch"]
    /\ UNCHANGED <<remote, config, run, notifier, clock, db, loaded,
                   file_states, player_sessions, player_lifecycle,
                   sftp_connections, emitted, seen, save_failed, missions,
                   loading>>

\* asyncssh.connect succeeds, some time after the cache was looked at: the
\* connection is cached under the key, whatever the cache holds by now.
ConnectOk(w) ==
    /\ cyc[w].pc = "connect"
    /\ ~cyc[w].in_cache
    /\ sftp_connections' =
           DictSet(sftp_connections,
                   ConnectionKey(cyc[w].guild_id, cyc[w].server_id), "open")
    /\ cyc' = [cyc EXCEPT ![w].pc = "fetch"]
    /\ UNCHANGED <<remote, config, run, notifier, clock, db, loaded,
                   file_states, player_sessions, player_lifecycle, emitted,
                   seen, save_failed, missions, loading>>

\* Mutant of ConnectFail: the handle of the failed connect is cached.
ConnectFailCached(w) ==
    /\ cyc[w].pc = "connect"
    /\ ~cyc[w].in_cache
    /\ sftp_connections' =
           DictSet(sftp_connections,
                   ConnectionKey(cyc[w].guild_id, cyc[w].server_id), "lost")
    /\ cyc' = [cyc EXCEPT ![w] = IdleCycle]
    /\ UNCHANGED <<remote, config, run, notifier, clock, db, loaded,
                   file_states, player_sessions, player_lifecycle, emitted,
                   seen, save_failed, missions, loading>>

\* asyncssh.connect raises: the cycle returns.
ConnectFail(w) ==
    /\ cyc[w].pc = "connect"
    /\ ~cyc[w].in_cache
    /\ cyc' = [cyc EXCEPT ![w] = IdleCycle]
    /\ UNCHANGED <<remote, config, run, notifier, clock, db, loaded,
                   file_states, player_sessions, player_lifecycle,
                   sftp_connections, emitted, seen, save_failed, missions,
                   loading>>

\* sftp.stat and log_file.read through a connection that is open: the
\* content is read.
Fetch(w) ==
    /\ cyc[w].pc = "fetch"
    /\ ConnectionKey(cyc[w].guild_id, cyc[w].server_id) \in DOMAIN sftp_connections
    /\ sftp_connections[ConnectionKey(cyc[w].guild_id, cyc[w].server_id)] = "open"
    /\ cyc' = [cyc EXCEPT ![w].pc = "decide",
                          ![w].content = remote[<<cyc[w].guild_id, cyc[w].server_id>>]]
    /\ UNCHANGED <<remote, config, run, notifier, clock, db, loaded,
                   file_states, player_sessions, player_lifecycle,
                   sftp_connections, emitted, seen, save_failed, missions,
                   loading>>

\* FileNotFoundError or another exception while reading.
FetchError(w) ==
    /\ cyc[w].pc = "fetch"
    /\ cyc' = [cyc EXCEPT ![w] = IdleCycle]
    /\ UNCHANGED <<remote, config, run, notifier, clock, db, loaded,
                   file_states, player_sessions, player_lifecycle,
                   sftp_connections, emitted, seen, save_failed, missions,
                   loading>>

\* 'if content:' is false: the file is empty, the cycle returns.
EmptyFile(w) ==
    /\ cyc[w].pc = "decide"
    /\ cyc[w].content = <<>>
    /\ cyc' = [cyc EXCEPT ![w] = IdleCycle]
    /\ UNCHANGED <<remote, config, run, notifier, clock, db, loaded,
                   file_states, player_sessions, player_lifecycle,
                   sftp_connections, emitted, seen, save_failed, missions,
                   loading>>

\* Mutant of IsWarmStart: the saved document is asked, not the memory.
IsWarmStartSaved(states, server_key) == LastProcessed(db, server_key) > 0

\* is_warm_start = last_processed > 0
IsWarmStart(states, server_key) == LastProcessed(states, server_key) > 0

\* Mutant of ColdFileStates: the cold start does not record the file state.
ColdFileStatesUnwritten(states, server_key, content, now) == states

\* The file states after _process_cold_start's write.
ColdFileStates(states, server_key, content, now) ==
    DictSet(states, server_key, FileState(Len(content), now))

\* The lifecycle cache after _process_cold_start's loop: the loop matches
\* the mission_ patterns only.
ColdLifecycle(lifecycle, guild_id, content, now) == lifecycle

\* The sessions after _process_cold_start's loop.
ColdSessions(sessions, guild_id, content, now) == sessions

\* History: the queue-join names on the lines a pass has read.
RECURSIVE SeenAfter(_, _, _)
SeenAfter(names, guild_id, lines) ==
    IF lines = <<>> THEN names
    ELSE SeenAfter(
             IF Head(lines).player_queue_join # NoMatch
             THEN DictSet(names, PlayerKey(guild_id, Head(lines).player_queue_join[1]),
                          Head(lines).player_queue_join[2])
             ELSE names,
             guild_id, Tail(lines))

\* not is_warm_start: _process_cold_start up to its await of the save.
ColdStart(w) ==
    /\ cyc[w].pc = "decide"
    /\ cyc[w].content # <<>>
    /\ ~IsWarmStart(file_states, Key(cyc[w]))
    /\ file_states' = ColdFileStates(file_states, Key(cyc[w]), cyc[w].content, clock)
    /\ player_lifecycle' =
           ColdLifecycle(player_lifecycle, cyc[w].guild_id, cyc[w].content, clock)
    /\ player_sessions' =
           ColdSessions(player_sessions, cyc[w].guild_id, cyc[w].content, clock)
    /\ cyc' = [cyc EXCEPT ![w].pc = "cold_save",
                          ![w].processed_events = ColdEventsParsed(cyc[w].content)]
    /\ seen' = SeenAfter(seen, cyc[w].guild_id, cyc[w].content)
    /\ UNCHANGED <<remote, config, run, notifier, clock, db, loaded,
                   sftp_connections, emitted, save_failed, missions, loading>>

\* Mutant of SavedDocument: the state of the key being processed is saved
\* as it was before this cycle wrote it.
SavedDocumentBeforeWrite(states) ==
    [k \in DOMAIN states |->
        IF /\ k \in DOMAIN db
           /\ \E w \in Workers : cyc[w].pc = "hot_save" /\ Key(cyc[w]) = k
        THEN db[k] ELSE states[k]]

\* _save_persistent_state: replace_one of the whole document.
SavedDocument(states) == states

\* The save of the cold start completes; parse_server_logs returns.
ColdSave(w) ==
    /\ cyc[w].pc = "cold_save"
    /\ db' = SavedDocument(file_states)
    /\ cyc' = [cyc EXCEPT ![w] = IdleCycle]
    /\ UNCHANGED <<remote, config, run, notifier, clock, loaded, file_states,
                   player_sessions, player_lifecycle, sftp_connections,
                   emitted, seen, save_failed, missions, loading>>

\* Mutant of NoNewLines: '==' in place of '>='.
NoNewLinesEqual(states, server_key, content) ==
    (IF server_key \in DOMAIN states THEN states[server_key].line_count ELSE 0)
        = Len(content)

\* Mutant of NoNewLines: '>' in place of '>='.
NoNewLinesStrict(states, server_key, content) ==
    (IF server_key \in DOMAIN states THEN states[server_key].line_count ELSE 0)
        > Len(content)

\* parse_log_content: 'elif last_processed >= total_lines: return embeds'
NoNewLines(states, server_key, content) ==
    LastProcessed(states, server_key) >= Len(content)

\* Mutant of NewLines: the slice starts one line late.
NewLinesOneLate(content, last_processed) ==
    IF last_processed > 0 /\ last_processed < Len(content)
    THEN SubSeq(content, last_processed + 2, Len(content))
    ELSE content

\* Mutant of NewLines: the slice starts one line early.
NewLinesOneEarly(content, last_processed) ==
    IF last_processed > 0 /\ last_processed < Len(content)
    THEN SubSeq(content, last_processed, Len(content))
    ELSE content

\* parse_log_content: the lines the loop runs over.
NewLines(content, last_processed) ==
    IF last_processed > 0 /\ last_processed < Len(content)
    THEN SubSeq(content, last_processed + 1, Len(content))
    ELSE content

\* Mutant of HotFileStates: the write is left out.
HotFileStatesUnwritten(states, server_key, content, now) == states

\* Mutant of HotFileStates: the index of the last line is recorded, not
\* the number of lines.
HotFileStatesLastIndex(states, server_key, content, now) ==
    [x \in DOMAIN states \cup {server_key} |->
        IF x = server_key
        THEN [line_count |-> Len(content) - 1, last_updated |-> now]
        ELSE states[x]]

\* The file states after parse_log_content's write, before its loop.
HotFileStates(states, server_key, content, now) ==
    DictSet(states, server_key, FileState(Len(content), now))

\* is_warm_start, no new lines: parse_log_content returns no embeds and
\* parse_server_logs returns.
HotNoNewLines(w) ==
    /\ cyc[w].pc = "decide"
    /\ cyc[w].content # <<>>
    /\ IsWarmStart(file_states, Key(cyc[w]))
    /\ NoNewLines(file_states, Key(cyc[w]), cyc[w].content)
    /\ cyc' = [cyc EXCEPT ![w] = IdleCycle]
    /\ UNCHANGED <<remote, config, run, notifier, clock, db, loaded,
                   file_states, player_sessions, player_lifecycle,
                   sftp_connections, emitted, seen, save_failed, missions,
                   loading>>

\* is_warm_start, new lines: parse_log_content up to its await of the save.
HotStart(w) ==
    /\ cyc[w].pc = "decide"
    /\ cyc[w].content # <<>>
    /\ IsWarmStart(file_states, Key(cyc[w]))
    /\ ~NoNewLines(file_states, Key(cyc[w]), cyc[w].content)
    /\ LET new_lines == NewLines(cyc[w].content,
                                 LastProcessed(file_states, Key(cyc[w])))
       IN  cyc' = [cyc EXCEPT
                     ![w].pc = "hot_save",
                     ![w].lines = new_lines,
                     ![w].first = Len(cyc[w].content) - Len(new_lines)]
    /\ file_states' = HotFileStates(file_states, Key(cyc[w]), cyc[w].content, clock)
    /\ UNCHANGED <<remote, config, run, notifier, clock, db, loaded,
                   player_sessions, player_lifecycle, sftp_connections,
                   emitted, seen, save_failed, missions, loading>>

\* The save before the loop completes.
HotSave(w) ==
    /\ cyc[w].pc = "hot_save"
    /\ db' = SavedDocument(file_states)
    /\ cyc' = [cyc EXCEPT ![w].pc = "extract"]
    /\ UNCHANGED <<remote, config, run, notifier, clock, loaded, file_states,
                   player_sessions, player_lifecycle, sftp_connections,
                   emitted, seen, save_failed, missions, loading>>

\* _save_persistent_state, replace_one raises: the error is logged and the
\* caller goes on.
SaveFails(w) ==
    /\ cyc[w].pc \in {"cold_save", "hot_save"}
    /\ cyc' = IF cyc[w].pc = "cold_save"
              THEN [cyc EXCEPT ![w] = IdleCycle]
              ELSE [cyc EXCEPT ![w].pc = "extract"]
    /\ save_failed' = TRUE
    /\ UNCHANGED <<remote, config, run, notifier, clock, db, loaded,
                   file_states, player_sessions, player_lifecycle,
                   sftp_connections, emitted, seen, missions, loading>>

\* The iteration raises: mission_respawn is the first pattern tried and
\* int(respawn_time) comes before anything is written.
Raises(line) ==
    /\ line.mission_respawn # NoMatch
    /\ line.mission_respawn[2] = Overlong

\* Mutant of AfterException: the exception ends the loop.
AfterExceptionBreak(line_idx, n_lines) == TRUE

\* 'except Exception: ... continue': the loop ends when no line is left.
AfterException(line_idx, n_lines) == line_idx + 1 = n_lines

\* One iteration of the line loop, with the safety check that ends it.
ExtractLine(w) ==
    /\ cyc[w].pc = "extract"
    /\ cyc[w].line_idx < Len(cyc[w].lines)
    /\ LET c    == cyc[w]
           src  == c.first + c.line_idx
           line == c.lines[c.line_idx + 1]
           st0  == [embeds           |-> c.embeds,
                    sources          |-> c.sources,
                    processed_events |-> c.processed_events,
                    player_lifecycle |-> player_lifecycle,
                    player_sessions  |-> player_sessions]
           st   == IF Raises(line) THEN st0
                   ELSE ProcessLine(st0, c.guild_id, line, Len(c.lines), src, clock)
           done == IF Raises(line)
                   THEN AfterException(c.line_idx, Len(c.lines))
                   ELSE \/ SafetyBreak(st.processed_events, Len(c.lines))
                        \/ c.line_idx + 1 = Len(c.lines)
       IN  /\ cyc' = [cyc EXCEPT ![w].pc = IF done THEN "send" ELSE "extract",
                                 ![w].line_idx = c.line_idx + 1,
                                 ![w].embeds = st.embeds,
                                 ![w].sources = st.sources,
                                 ![w].processed_events = st.processed_events]
           /\ player_lifecycle' = st.player_lifecycle
           /\ player_sessions' = st.player_sessions
           /\ emitted' = [emitted EXCEPT ![<<c.guild_id, c.server_id>>][src] =
                              IF @ < 2 THEN @ + 1 ELSE @]
           /\ seen' = IF Raises(line) THEN seen
                      ELSE SeenAfter(seen, c.guild_id, <<line>>)
    /\ UNCHANGED <<remote, config, run, notifier, clock, db, loaded,
                   file_states, sftp_connections, save_failed, missions,
                   loading>>

\* parse_log_content has returned its embeds: they are handed to
\* send_log_embeds when there are any, and parse_server_logs returns.
Send(w) ==
    /\ cyc[w].pc = "send"
    /\ sent' = IF cyc[w].embeds # <<>>
               THEN sent \o send_log_embeds(cyc[w].guild_id, cyc[w].server_id,
                                            cyc[w].embeds)
               ELSE sent
    /\ cyc' = [cyc EXCEPT ![w] = IdleCycle]
    /\ UNCHANGED <<remote, config, run, resolved, clock, db, loaded,
                   file_states, player_sessions, player_lifecycle,
                   sftp_connections, emitted, seen, save_failed, missions,
                   loading>>

----------------------------------------------------------------------------
\* run_log_parser: the servers of every guild document, one after the other.

\* The guilds in the order of the collection, the servers of each in the
\* order of its document.
RunOrder == <<<<12, ServerA>>, <<12, ServerB>>, <<123, ServerA>>>>

RECURSIVE Listed(_, _)
Listed(servers, keys) ==
    IF servers = <<>> THEN <<>>
    ELSE IF Head(servers) \in keys
         THEN <<Head(servers)>> \o Listed(Tail(servers), keys)
         ELSE Listed(Tail(servers), keys)

\* Mutant of RemainingServers: the loop is left after a server.
RemainingServersNone(servers) == <<>>

\* 'for server in servers', and 'continue' after an exception: the loop
\* goes on with the next server.
RemainingServers(servers) == Tail(servers)

\* A run begins: guilds.find({}) lists the guilds and their servers.
RunStart ==
    /\ run = <<>>
    /\ Listed(RunOrder, scheduled) # <<>>
    /\ run' = Listed(RunOrder, scheduled)
    /\ UNCHANGED <<remote, config, notifier, clock, db, loaded, file_states,
                   player_sessions, player_lifecycle, sftp_connections, cyc,
                   emitted, seen, save_failed, missions, loading>>

\* parse_server_logs is awaited for the next server of the run.
RunNext(w) ==
    /\ run # <<>>
    /\ StartCycle(w, Head(run)[1], Head(run)[2])
    /\ run' = RemainingServers(run)

\* 'if not all([host, ssh_user, ssh_password])' or the host check: the
\* cycle of the next server of the run returns at once.
SkipMisconfigured(w) ==
    /\ run # <<>>
    /\ cyc[w].pc = "idle"
    /\ Head(run) \in misconfigured
    /\ run' = RemainingServers(run)
    /\ UNCHANGED <<remote, config, notifier, clock, db, loaded, file_states,
                   player_sessions, player_lifecycle, sftp_connections, cyc,
                   emitted, seen, save_failed, missions, loading>>

----------------------------------------------------------------------------
\* Specifications.

Quiescent == \A w \in Workers : cyc[w].pc = "idle"

Cycle(w) ==
    \/ \E k \in scheduled :
          loaded /\ Quiescent /\ StartCycle(w, k[1], k[2]) /\ UNCHANGED run
    \/ ConnectReuse(w)
    \/ ConnectOk(w)
    \/ ConnectFail(w)
    \/ Fetch(w)
    \/ FetchError(w)
    \/ EmptyFile(w)
    \/ ColdStart(w)
    \/ ColdSave(w)
    \/ HotNoNewLines(w)
    \/ HotStart(w)
    \/ HotSave(w)
    \/ ExtractLine(w)
    \/ Send(w)

\* A cycle works on the content it has read, so a line appended while the
\* cycle runs is the same as one appended right after it; likewise the
\* clock is read once per cycle.
Environment ==
    \/ Quiescent /\ \E k \in scheduled : \E line \in alphabet : AppendLine(k, line)
    \/ Quiescent /\ Tick
    \/ Restart
    \/ LoadPersistentState
    \/ LoadFails

ScheduledGuilds == {k[1] : k \in scheduled}

ResetArguments ==
    {<<ServerKey(k[1], k[2]), None>> : k \in scheduled}
        \cup {<<<<>>, <<g>>>> : g \in ScheduledGuilds \cup {0}}
        \cup {<<<<>>, None>>}

Maintenance ==
    \/ \E a \in ResetArguments : reset_file_states(a[1], a[2])
    \/ \E g \in ScheduledGuilds : cleanup_guild_state(g)

\* One cycle at a time, started once the load has completed; reset and
\* cleanup run between cycles; every save succeeds.
Next ==
    \/ \E w \in Sequential : Cycle(w)
    \/ Environment
    \/ Quiescent /\ Maintenance

Spec == Init /\ [][Next]_vars

\* Only player lines are logged.
InitPlayers == InitWith(PlayerLines, {<<12, ServerA>>}, MaxPlayerLines)
SpecPlayers == InitPlayers /\ [][Next]_vars

\* Lines matching several patterns are logged.
InitCrafted == InitWith(CraftedLines, {<<12, ServerA>>}, MaxLines)
SpecCrafted == InitCrafted /\ [][Next]_vars

\* Two guilds, one id a prefix of the other.
InitGuilds == InitWith(GuildLines, {<<12, ServerA>>, <<123, ServerA>>}, MaxGuildLines)
SpecGuilds == InitGuilds /\ [][Next]_vars

\* The steps of a cycle after its start.
CycleSteps(w) ==
    \/ ConnectReuse(w)
    \/ ConnectOk(w)
    \/ ConnectFail(w)
    \/ Fetch(w)
    \/ FetchError(w)
    \/ EmptyFile(w)
    \/ ColdStart(w)
    \/ ColdSave(w)
    \/ HotNoNewLines(w)
    \/ HotStart(w)
    \/ HotSave(w)
    \/ ExtractLine(w)
    \/ Send(w)

\* Two invocations of parse_server_logs at once, each started whatever the
\* other does, interleaved at their awaits; the log grows at any time.
NextConcurrent ==
    \/ \E w \in Workers : \E k \in scheduled :
          loaded /\ StartCycle(w, k[1], k[2]) /\ UNCHANGED run
    \/ \E w \in Workers : CycleSteps(w)
    \/ \E k \in scheduled : \E line \in alphabet : AppendLine(k, line)
    \/ LoadPersistentState

InitConcurrent == InitWith({RegisteredLine}, {<<12, ServerA>>}, MaxConcurrentLines)
SpecConcurrent == InitConcurrent /\ [][NextConcurrent]_vars

\* cleanup_guild_state is called whatever the cycle does: between cycles
\* or while one is suspended at an await.
NextInFlight ==
    \/ \E w \in Sequential : Cycle(w)
    \/ Quiescent /\ \E k \in scheduled : \E line \in alphabet : AppendLine(k, line)
    \/ LoadPersistentState
    \/ \E g \in ScheduledGuilds : cleanup_guild_state(g)

InitInFlight == InitWith({JoinLine, ReadyLine}, {<<12, ServerA>>}, MaxConcurrentLines)
SpecInFlight == InitInFlight /\ [][NextInFlight]_vars

\* As Next, and the connection of a cached handle may be lost.
NextTransport ==
    \/ Next
    \/ Quiescent /\ \E k \in scheduled : ConnectionLost(ConnectionKey(k[1], k[2]))

InitTransport == InitWith(StorageLines, {<<12, ServerA>>}, MaxConcurrentLines)
SpecTransport == InitTransport /\ [][NextTransport]_vars

\* Two servers of one guild; players join and leave.
InitServers ==
    InitWith({JoinLine, DisconnectLine}, {<<12, ServerA>>, <<12, ServerB>>},
             MaxConcurrentLines)

NextServers ==
    \/ \E w \in Sequential : Cycle(w)
    \/ Quiescent /\ \E k \in scheduled : \E line \in alphabet : AppendLine(k, line)
    \/ LoadPersistentState

SpecServers == InitServers /\ [][NextServers]_vars

\* Runs of run_log_parser over three servers of two guilds, one of them
\* possibly without credentials; every connect and every read may fail;
\* the logs grow between the runs.
RunProgress ==
    \E w \in Sequential : RunNext(w) \/ SkipMisconfigured(w) \/ CycleSteps(w)

NextRun ==
    \/ loaded /\ Quiescent /\ RunStart
    \/ RunProgress
    \/ /\ Quiescent
       /\ run = <<>>
       /\ \E k \in scheduled : \E line \in alphabet : AppendLine(k, line)
    \/ LoadPersistentState

BrokenChoices == {{}, {<<12, ServerA>>}, {<<12, ServerB>>}}

InitRun ==
    \E broken \in BrokenChoices :
        InitConfigured({ReadyLine},
                       {<<12, ServerA>>, <<12, ServerB>>, <<123, ServerA>>},
                       MaxConcurrentLines, broken)

\* The event loop resumes a coroutine whose await has completed, and the
\* connect and login timeouts end a connect that does not answer.
SpecRun == InitRun /\ [][NextRun]_vars /\ WF_vars(RunProgress)

\* Runs over two servers of one guild, the second without credentials;
\* player and mission lines are logged.
InitEarly ==
    InitConfigured({JoinLine, ReadyLine}, {<<12, ServerA>>, <<12, ServerB>>},
                   MaxLines, {<<12, ServerB>>})

SpecEarly == InitEarly /\ [][NextRun]_vars

\* get_server_channel on its own, over the guild documents of guild 12
\* that hold, for the channel type "events": a server entry for server a,
\* a 'default' entry, both or neither, each without the type, with an id
\* taken as false, or with an id; and a legacy 'channels' dictionary
\* likewise; or no document at all.
EventsEntries ==
    {EmptyDict} \cup {[t \in {"events"} |-> id] : id \in {0, 101, 102}}

ServerChannelsChoices ==
    UNION {[keys -> EventsEntries] : keys \in SUBSET {ServerA, Default}}

LegacyChoices ==
    {EmptyDict} \cup {[t \in {"events"} |-> id] : id \in {0, 103}}

GuildDocumentChoices ==
    {None} \cup {<<GuildDocument(sc, ch)>> :
                    sc \in ServerChannelsChoices, ch \in LegacyChoices}

InitChannels ==
    /\ alphabet = {}
    /\ scheduled = {}
    /\ limit = 0
    /\ \E doc \in GuildDocumentChoices :
          guild_config = [g \in Guilds |-> IF g = 12 THEN doc ELSE None]
    /\ misconfigured = {}
    /\ run = <<>>
    /\ sent = <<>>
    /\ resolved = None
    /\ loading = LoadIdle
    /\ asked_mission = ""
    /\ mission_level = None
    /\ mission_name = None
    /\ remote = [k \in AllKeys |-> <<>>]
    /\ clock = 0
    /\ db = EmptyDict
    /\ loaded = FALSE
    /\ file_states = EmptyDict
    /\ player_sessions = EmptyDict
    /\ player_lifecycle = EmptyDict
    /\ sftp_connections = EmptyDict
    /\ cyc = [w \in Workers |-> IdleCycle]
    /\ emitted = [k \in AllKeys |-> [i \in {} |-> 0]]
    /\ seen = EmptyDict
    /\ save_failed = FALSE

NextChannels ==
    \E server_id \in Servers : \E channel_type \in ChannelTypes :
        ResolveChannel(12, server_id, channel_type)

SpecChannels == InitChannels /\ [][NextChannels]_vars

\* The players of a guild join and leave; this guild or another one may be
\* cleaned up between cycles; the process is not restarted.
NextSessions ==
    \/ \E w \in Sequential : Cycle(w)
    \/ Quiescent /\ \E k \in scheduled : \E line \in alphabet : AppendLine(k, line)
    \/ LoadPersistentState
    \/ Quiescent /\ \E g \in Guilds : cleanup_guild_state(g)

InitSessions == InitWith({JoinLine, DisconnectLine}, {<<12, ServerA>>}, MaxLines)

SpecSessions == InitSessions /\ [][NextSessions]_vars

\* One server whose log grows; some respawn lines carry seconds that int()
\* does not convert.
InitRaise == InitWith({ReadyLine, OverlongLine}, {<<12, ServerA>>}, MaxSliceLines)

SpecRaise == InitRaise /\ [][NextServers]_vars

\* One server whose log holds respawn lines, with 30 and with 0 seconds.
InitRespawn == InitWith({RespawnLine, RespawnNowLine}, {<<12, ServerA>>}, MaxLines)

SpecRespawn == InitRespawn /\ [][NextServers]_vars

\* One server whose log grows by plain mission lines and by lines on which
\* four patterns match at once.
InitSlices == InitWith({CraftedLine, ReadyLine}, {<<12, ServerA>>}, MaxSliceLines)

SpecSlices == InitSlices /\ [][NextServers]_vars

\* A process started over the document and the log an earlier process has
\* left: the load task runs step by step and cycles run from its first
\* await on; no reset, no cleanup, no restart.
NextLoad ==
    \/ LoadBegin
    \/ LoadFind
    \/ LoadEnd
    \/ \E w \in Sequential : \E k \in scheduled :
          /\ loading.pc # "start"
          /\ Quiescent
          /\ StartCycle(w, k[1], k[2])
          /\ UNCHANGED run
    \/ \E w \in Sequential : CycleSteps(w)
    \/ Quiescent /\ \E k \in scheduled : \E line \in alphabet : AppendLine(k, line)

InitLoad ==
    \E earlier \in {<<>>, <<ReadyLine>>} :
        InitStored({ReadyLine}, {<<12, ServerA>>}, MaxLines, {},
                   IF earlier = <<>> THEN EmptyDict
                   ELSE DictSet(EmptyDict, ServerKey(12, ServerA),
                                FileState(Len(earlier), 0)),
                   [k \in AllKeys |->
                       IF k = <<12, ServerA>> THEN earlier ELSE <<>>])

SpecLoad == InitLoad /\ [][NextLoad]_vars

\* The mission helpers on their own, over the ids of the catalog and the
\* ids "GA_<a>_<b>" and "GA_<a>_<b>_Foo" made of two parts of Parts.
Parts ==
    {"Airport", "Military", "Settle", "Ind", "PromZone", "KhimMash", "Bunker",
     "Sawmill", "Kamensk", "Lighthouse", "bunker", "Foo", "99", "Mis1"}

MissionIds ==
    DOMAIN mission_mappings
        \cup {"GA_" \o a \o "_" \o b : a \in Parts, b \in Parts}
        \cup {"GA_" \o a \o "_" \o b \o "_Foo" : a \in Parts, b \in Parts}

InitMissions ==
    /\ alphabet = {}
    /\ scheduled = {}
    /\ limit = 0
    /\ guild_config = RoutedGuildConfig
    /\ misconfigured = {}
    /\ run = <<>>
    /\ sent = <<>>
    /\ resolved = None
    /\ loading = LoadIdle
    /\ asked_mission \in MissionIds
    /\ mission_level = None
    /\ mission_name = None
    /\ remote = [k \in AllKeys |-> <<>>]
    /\ clock = 0
    /\ db = EmptyDict
    /\ loaded = FALSE
    /\ file_states = EmptyDict
    /\ player_sessions = EmptyDict
    /\ player_lifecycle = EmptyDict
    /\ sftp_connections = EmptyDict
    /\ cyc = [w \in Workers |-> IdleCycle]
    /\ emitted = [k \in AllKeys |-> [i \in {} |-> 0]]
    /\ seen = EmptyDict
    /\ save_failed = FALSE

NextMissions == GetMissionLevel \/ NormalizeMissionName

SpecMissions == InitMissions /\ [][NextMissions]_vars

\* One process that is not restarted: cycles and resets.
NextReset ==
    \/ \E w \in Sequential : Cycle(w)
    \/ Quiescent /\ \E k \in scheduled : \E line \in alphabet : AppendLine(k, line)
    \/ Quiescent /\ Tick
    \/ LoadPersistentState
    \/ Quiescent /\ \E a \in ResetArguments : reset_file_states(a[1], a[2])

InitReset == InitWith(StorageLines, {<<12, ServerA>>}, MaxLines)
SpecReset == InitReset /\ [][NextReset]_vars

\* As Next, and the log may be rotated.
NextTruncate ==
    \/ Next
    \/ Quiescent /\ \E k \in scheduled : Truncate(k)

InitTruncate == InitWith(StorageLines, {<<12, ServerA>>}, MaxLines)
SpecTruncate == InitTruncate /\ [][NextTruncate]_vars

\* Cycles, crashes and restarts over an append-only log, no reset and no
\* cleanup, and a save may fail.
NextStorage ==
    \/ \E w \in Sequential : Cycle(w)
    \/ Environment
    \/ \E w \in Sequential : SaveFails(w)

InitStorage == InitWith(StorageLines, {<<12, ServerA>>}, MaxLines)
SpecStorage == InitStorage /\ [][NextStorage]_vars

----------------------------------------------------------------------------
\* Properties.

\* The step is a step of the running process, not its death.
Survives == loaded'

\* The embeds a step appends to the embeds of cycle w.
NewEmbeds(w) ==
    SubSeq(cyc'[w].embeds, Len(cyc[w].embeds) + 1, Len(cyc'[w].embeds))

\* The number of event patterns that match a line.
EventCount(line) ==
    Cardinality({f \in {"mission_respawn", "mission_state_change",
                        "player_registered", "player_disconnect"} :
                    line[f] # NoMatch})

\* C1: a cycle that finds no stored line count for its key and reads N
\* lines leaves N as the stored line count of the key, whatever the lines
\* hold, and returns without having emitted an event; for N >= 1 the count
\* is written before the save and the cycle returns after it.
C1_ColdStartStep(w) ==
    LET c == cyc[w]
        k == Key(c)
    IN  /\ (c.pc = "decide" /\ LastProcessed(file_states, k) = 0 /\ Survives)
              => /\ LastProcessed(file_states', k) = Len(c.content)
                 /\ c.content # <<>>
                       => /\ cyc'[w].pc = "cold_save"
                          /\ k \in DOMAIN file_states'
                 /\ cyc'[w].embeds = <<>>
                 /\ emitted' = emitted
        /\ (c.pc = "cold_save" /\ Survives)
              => /\ cyc'[w].pc = "idle"
                 /\ k \in DOMAIN file_states'
                 /\ file_states'[k].line_count = Len(c.content)
                 /\ c.embeds = <<>>
                 /\ emitted' = emitted

C1_ColdStartSuppression == [][\A w \in Workers : C1_ColdStartStep(w)]_vars

\* A cold start over three lines that hold events has recorded 3.
C1_Witness ==
    \E w \in Workers :
        /\ cyc[w].pc = "cold_save"
        /\ cyc[w].content = <<QueueAlice, RegisteredLine, ReadyLine>>
        /\ file_states[Key(cyc[w])].line_count = 3
        /\ cyc[w].embeds = <<>>

\* C2: with a stored line_count P > 0 and a file of T > P lines the cycle
\* scans lines P..T-1 and no other: its slice is content[P+1..T], every line
\* it extracts and every embed it returns comes from an index in [P, T), and
\* the events of line P are returned once each.
C2_Step(w) ==
    LET c == cyc[w]
        k == Key(c)
        P == LastProcessed(file_states, k)
        T == Len(c.content)
    IN  /\ (c.pc = "decide" /\ P > 0 /\ T > P /\ Survives)
              => /\ cyc'[w].pc = "hot_save"
                 /\ cyc'[w].lines = SubSeq(c.content, P + 1, T)
                 /\ cyc'[w].first = P
        /\ (c.pc = "extract" /\ Survives)
              => \A i \in DOMAIN emitted[<<c.guild_id, c.server_id>>] :
                    emitted'[<<c.guild_id, c.server_id>>][i]
                        # emitted[<<c.guild_id, c.server_id>>][i]
                    => c.first <= i /\ i < T
        /\ (c.pc = "send")
              => /\ c.first > 0
                 /\ \A i \in 1..Len(c.sources) :
                        c.first <= c.sources[i] /\ c.sources[i] < T
                 /\ Cardinality({i \in 1..Len(c.sources) : c.sources[i] = c.first})
                        = EventCount(c.content[c.first + 1])

C2_HotStartDelta == [][\A w \in Workers : C2_Step(w)]_vars

\* A cycle returns from a slice that starts at P >= 1, with an event on
\* line P-1 and an event on line P.
C2_Witness ==
    \E w \in Workers :
        /\ cyc[w].pc = "send"
        /\ cyc[w].first >= 1
        /\ Len(cyc[w].content) > cyc[w].first + 1
        /\ EventCount(cyc[w].content[cyc[w].first]) > 0
        /\ EventCount(cyc[w].content[cyc[w].first + 1]) > 0
        /\ cyc[w].sources[1] = cyc[w].first

\* C3: a cycle that reads as many lines as the stored line_count returns at
\* once: no event, and the file state, last_updated included, and the saved
\* document are left as they were.
C3_Step(w) ==
    LET c == cyc[w]
        k == Key(c)
    IN  (/\ c.pc = "decide"
         /\ k \in DOMAIN file_states
         /\ Len(c.content) = file_states[k].line_count
         /\ Survives)
            => /\ cyc'[w].pc = "idle"
               /\ file_states' = file_states
               /\ db' = db
               /\ emitted' = emitted
               /\ player_sessions' = player_sessions
               /\ player_lifecycle' = player_lifecycle

C3_Idempotence == [][\A w \in Workers : C3_Step(w)]_vars

\* A cycle has read a file of the stored length, at a later time than the
\* one stored.
C3_Witness ==
    \E w \in Workers :
        /\ cyc[w].pc = "decide"
        /\ Key(cyc[w]) \in DOMAIN file_states
        /\ file_states[Key(cyc[w])].line_count = Len(cyc[w].content)
        /\ file_states[Key(cyc[w])].last_updated < clock
        /\ \E i \in DOMAIN emitted[<<cyc[w].guild_id, cyc[w].server_id>>] :
              emitted[<<cyc[w].guild_id, cyc[w].server_id>>][i] = 1

\* C4: in a hot-start cycle the file state of the key holds the new total,
\* and the save of it has been made, before the first line is examined;
\* until the save is made no line has been examined.
C4_StateBeforeExtraction ==
    \A w \in Workers :
        LET c == cyc[w]
            k == Key(c)
        IN  /\ c.pc \in {"extract", "send"}
                  => /\ k \in DOMAIN file_states
                     /\ file_states[k].line_count = Len(c.content)
                     /\ k \in DOMAIN db
                     /\ db[k].line_count = Len(c.content)
            /\ c.pc = "hot_save"
                  => /\ k \in DOMAIN file_states
                     /\ file_states[k].line_count = Len(c.content)
                     /\ c.line_idx = 0
                     /\ c.embeds = <<>>
            /\ c.pc = "decide" => c.line_idx = 0 /\ c.embeds = <<>>

\* A hot-start cycle is about to examine its first line: memory and the
\* saved document hold the new total, which is past the old offset.
C4_Witness ==
    \E w \in Workers :
        /\ cyc[w].pc = "extract"
        /\ cyc[w].line_idx = 0
        /\ cyc[w].first >= 1
        /\ Len(cyc[w].content) = cyc[w].first + 2
        /\ file_states[Key(cyc[w])].line_count = Len(cyc[w].content)
        /\ db[Key(cyc[w])].line_count = Len(cyc[w].content)

TenantFileKeys(g) == {ServerKey(g, s) : s \in Servers}
TenantPlayerKeys(g) == {PlayerKey(g, p) : p \in Players}
TenantConnectionKeys(g) == {ConnectionKey(g, s) : s \in Servers}

Restricted(d, ks) == [k \in DOMAIN d \cap ks |-> d[k]]

\* C6: cleanup of guild a removes every entry of a from the file states,
\* the sessions, the lifecycle cache and the connections, and leaves the
\* entries of every other guild, one whose id has a's id as a prefix
\* included, as they were.
C6_Step(a) ==
    cleanup_guild_state(a)
        => /\ DOMAIN file_states' \cap TenantFileKeys(a) = {}
           /\ DOMAIN player_sessions' \cap TenantPlayerKeys(a) = {}
           /\ DOMAIN player_lifecycle' \cap TenantPlayerKeys(a) = {}
           /\ DOMAIN sftp_connections' \cap TenantConnectionKeys(a) = {}
           /\ \A b \in Guilds \ {a} :
                 /\ Restricted(file_states', TenantFileKeys(b))
                        = Restricted(file_states, TenantFileKeys(b))
                 /\ Restricted(player_sessions', TenantPlayerKeys(b))
                        = Restricted(player_sessions, TenantPlayerKeys(b))
                 /\ Restricted(player_lifecycle', TenantPlayerKeys(b))
                        = Restricted(player_lifecycle, TenantPlayerKeys(b))
                 /\ Restricted(sftp_connections', TenantConnectionKeys(b))
                        = Restricted(sftp_connections, TenantConnectionKeys(b))

C6_CleanupIsolation == [][\A a \in Guilds : C6_Step(a)]_vars

\* Guilds 12 and 123 both hold an entry in each of the four maps, no cycle
\* runs: cleanup of either can be called.
C6_Witness ==
    /\ Quiescent
    /\ loaded
    /\ \A g \in Guilds :
          /\ ServerKey(g, ServerA) \in DOMAIN file_states
          /\ PlayerKey(g, PlayerX) \in DOMAIN player_sessions
          /\ PlayerKey(g, PlayerX) \in DOMAIN player_lifecycle
          /\ ConnectionKey(g, ServerA) \in DOMAIN sftp_connections

\* C7: when a queue-join line naming a player has been read, in this slice
\* or in an earlier cycle, the joined event of that player's registration
\* carries that name.
C7_Step(w) ==
    LET c    == cyc[w]
        line == c.lines[c.line_idx + 1]
    IN  (/\ c.pc = "extract"
         /\ Survives
         /\ line.player_registered # NoMatch
         /\ PlayerKey(c.guild_id, line.player_registered[1]) \in DOMAIN seen')
            => \A i \in 1..Len(NewEmbeds(w)) :
                  NewEmbeds(w)[i].title = "Player Connected"
                      => NewEmbeds(w)[i].player_name
                            = seen'[PlayerKey(c.guild_id, line.player_registered[1])]

C7_NameBridging == [][\A w \in Workers : C7_Step(w)]_vars

\* parse_log_content's loop run over lines from index idx on.
RECURSIVE HotPass(_, _, _, _, _)
HotPass(st, guild_id, lines, idx, now) ==
    IF idx >= Len(lines) \/ SafetyBreak(st.processed_events, Len(lines))
    THEN st
    ELSE HotPass(ProcessLine(st, guild_id, lines[idx + 1], Len(lines), idx, now),
                 guild_id, lines, idx + 1, now)

\* C8: a cold start leaves the sessions and the lifecycle cache as a
\* hot-start pass over the same lines would.
C8_Step(w) ==
    LET c   == cyc[w]
        hot == HotPass([embeds           |-> <<>>,
                        sources          |-> <<>>,
                        processed_events |-> 0,
                        player_lifecycle |-> player_lifecycle,
                        player_sessions  |-> player_sessions],
                       c.guild_id, c.content, 0, clock)
    IN  (c.pc = "decide" /\ cyc'[w].pc = "cold_save")
            => /\ player_sessions' = hot.player_sessions
               /\ player_lifecycle' = hot.player_lifecycle

C8_ColdStartTracksState == [][\A w \in Workers : C8_Step(w)]_vars

\* C9: the name of a disconnect event is the name of the player's session
\* when there is one; else the name in the lifecycle cache when there is
\* one; else "Unknown Player".
C9_Step(w) ==
    LET c    == cyc[w]
        line == c.lines[c.line_idx + 1]
        pk   == PlayerKey(c.guild_id, line.player_disconnect[1])
        e    == cyc'[w].embeds[Len(cyc'[w].embeds)]
    IN  (/\ c.pc = "extract"
         /\ Survives
         /\ line.player_disconnect # NoMatch
         /\ line.player_registered = NoMatch
         /\ line.player_queue_join = NoMatch)
            => /\ Len(cyc'[w].embeds) = Len(c.embeds) + 1
               /\ e.title = "Player Disconnected"
               /\ e.player_name =
                      IF pk \in DOMAIN player_sessions
                      THEN player_sessions[pk].player_name
                      ELSE IF pk \in DOMAIN player_lifecycle
                      THEN player_lifecycle[pk].name
                      ELSE UnknownPlayer

C9_DisconnectNameOrder == [][\A w \in Workers : C9_Step(w)]_vars

\* A disconnect event has just been made with the name of the session
\* while the lifecycle cache holds another name for the player.
C9_Witness ==
    \E w \in Workers :
        LET c  == cyc[w]
            pk == PlayerKey(c.guild_id, PlayerX)
        IN  /\ c.pc \in {"extract", "send"}
            /\ c.line_idx >= 1
            /\ c.lines[c.line_idx] = DisconnectLine
            /\ c.embeds # <<>>
            /\ c.embeds[Len(c.embeds)].title = "Player Disconnected"
            /\ pk \in DOMAIN player_sessions
            /\ pk \in DOMAIN player_lifecycle
            /\ player_lifecycle[pk].name # player_sessions[pk].player_name
            /\ c.embeds[Len(c.embeds)].player_name = player_sessions[pk].player_name

\* C10: a cycle over a slice of L lines never returns more than 2L+1
\* embeds.
C10_SafetyBreak ==
    \A w \in Workers :
        cyc[w].pc = "send" => Len(cyc[w].embeds) <= 2 * Len(cyc[w].lines) + 1

\* C11: a cycle that reads fewer lines than the stored line_count returns
\* at once: no line extracted, no event, the file state and the saved
\* document as they were; and the file state of a key goes away only by
\* reset_file_states or cleanup_guild_state, a cold start being run only
\* for a key that has none.
C11_Step(w) ==
    LET c == cyc[w]
        k == Key(c)
    IN  /\ (/\ c.pc = "decide"
            /\ k \in DOMAIN file_states
            /\ Len(c.content) < file_states[k].line_count
            /\ Survives)
              => /\ cyc'[w].pc = "idle"
                 /\ file_states' = file_states
                 /\ db' = db
                 /\ emitted' = emitted
                 /\ sent' = sent
                 /\ player_sessions' = player_sessions
                 /\ player_lifecycle' = player_lifecycle
        /\ (c.pc = "decide" /\ cyc'[w].pc = "cold_save")
              => k \notin DOMAIN file_states

C11_Removal ==
    (Survives /\ DOMAIN file_states \ DOMAIN file_states' # {})
        => \/ \E a \in ResetArguments : reset_file_states(a[1], a[2])
           \/ \E g \in ScheduledGuilds : cleanup_guild_state(g)

C11_TruncationNoOp == [][C11_Removal /\ \A w \in Workers : C11_Step(w)]_vars

\* A cycle has read a rotated log: it holds lines, fewer than were stored.
C11_Witness ==
    \E w \in Workers :
        /\ cyc[w].pc = "decide"
        /\ Key(cyc[w]) \in DOMAIN file_states
        /\ cyc[w].content # <<>>
        /\ Len(cyc[w].content) < file_states[Key(cyc[w])].line_count
        /\ file_states[Key(cyc[w])].last_updated < clock

\* The keys a call of reset_file_states is to remove.
ResetTargets(server_key, guild_id) ==
    IF server_key # <<>> THEN {server_key}
    ELSE IF guild_id # None THEN TenantFileKeys(guild_id[1])
    ELSE {ServerKey(k[1], k[2]) : k \in AllKeys}

\* C12: reset_file_states, by key, by tenant or for all, leaves no file
\* state for the keys it is called for; and the next cycle that reads
\* lines for a key whose saved file state was so removed is a cold start: it
\* records the number of lines read and emits no event.  (In SpecReset a
\* key that is in the saved document and not in memory has been reset.)
C12_Step(w) ==
    LET c == cyc[w]
        k == Key(c)
    IN  /\ (/\ c.pc = "decide"
            /\ c.content # <<>>
            /\ k \in DOMAIN db
            /\ k \notin DOMAIN file_states)
              => /\ cyc'[w].pc = "cold_save"
                 /\ k \in DOMAIN file_states'
                 /\ file_states'[k].line_count = Len(c.content)
                 /\ cyc'[w].embeds = <<>>
                 /\ emitted' = emitted
                 /\ sent' = sent
        /\ c.pc = "cold_save"
              => /\ cyc'[w].pc = "idle"
                 /\ emitted' = emitted
                 /\ sent' = sent

C12_ResetForcesColdStart ==
    [][/\ \A a \in ResetArguments :
             reset_file_states(a[1], a[2])
                 => DOMAIN file_states' \cap ResetTargets(a[1], a[2]) = {}
       /\ \A w \in Workers : C12_Step(w)]_vars

\* After a reset the key is cold-started over three lines, the last of
\* which holds an event and was never extracted; two lines had been saved.
C12_Witness ==
    \E w \in Workers :
        LET c == cyc[w]
            k == Key(c)
        IN  /\ c.pc = "cold_save"
            /\ Len(c.content) = 3
            /\ EventCount(c.content[3]) > 0
            /\ k \in DOMAIN db
            /\ db[k].line_count = 2
            /\ file_states[k].line_count = 3
            /\ emitted[<<c.guild_id, c.server_id>>][1] = 1
            /\ emitted[<<c.guild_id, c.server_id>>][2] = 0

\* The channel type of the category of an event record.
CategoryChannelType(embed) ==
    IF embed.kind = "mission" THEN "events" ELSE "connections"

\* The event records of a cycle that have a configured, existing
\* destination, by their place in the list extraction returned.
Deliverable(c) ==
    {i \in 1..Len(c.embeds) :
        LET channel_id == get_server_channel(c.guild_id, c.server_id,
                                             CategoryChannelType(c.embeds[i]))
        IN  Truthy(channel_id) /\ channel_id[1] \in ExistingChannels}

\* C13: when a hot-start cycle returns, every event record it extracted
\* that has a configured, existing destination has been sent there, once.
C13_Step(w) ==
    LET c   == cyc[w]
        new == SubSeq(sent', Len(sent) + 1, Len(sent'))
    IN  (c.pc = "send" /\ Survives)
            => /\ Len(new) = Cardinality(Deliverable(c))
               /\ \A i \in Deliverable(c) :
                     \E j \in 1..Len(new) :
                        new[j] = <<get_server_channel(c.guild_id, c.server_id,
                                       CategoryChannelType(c.embeds[i]))[1],
                                   c.embeds[i]>>

C13_EventsDelivered == [][\A w \in Workers : C13_Step(w)]_vars

\* An entry of a dictionary that is there and is not taken as false.
Configured(d, k) == k \in DOMAIN d /\ d[k] # 0

\* C14: get_server_channel returns the entry of the channel type under the
\* server's id when there is one and it is not empty; else the entry under
\* 'default' when there is one and it is not empty; else the entry of the
\* legacy 'channels' dictionary; else, and when there is no guild document,
\* none.
C14_DestinationPrecedence ==
    resolved # None =>
        LET doc          == guild_config[resolved[1]]
            server_id    == resolved[2]
            channel_type == resolved[3]
            result       == resolved[4]
        IN  IF doc = None THEN result = None
            ELSE IF /\ server_id \in DOMAIN doc[1].server_channels
                    /\ Configured(doc[1].server_channels[server_id], channel_type)
            THEN result = <<doc[1].server_channels[server_id][channel_type]>>
            ELSE IF /\ Default \in DOMAIN doc[1].server_channels
                    /\ Configured(doc[1].server_channels[Default], channel_type)
            THEN result = <<doc[1].server_channels[Default][channel_type]>>
            ELSE IF channel_type \in DOMAIN doc[1].channels
            THEN result = <<doc[1].channels[channel_type]>>
            ELSE result = None

\* Server a has its own events channel 101, the tenant default is 102 and
\* the legacy entry 103: the call for server a has returned 101.
C14_Witness ==
    /\ resolved # None
    /\ resolved[2] = ServerA
    /\ resolved[3] = "events"
    /\ guild_config[12] # None
    /\ ServerA \in DOMAIN guild_config[12][1].server_channels
    /\ Default \in DOMAIN guild_config[12][1].server_channels
    /\ guild_config[12][1].server_channels[ServerA] = [t \in {"events"} |-> 101]
    /\ guild_config[12][1].server_channels[Default] = [t \in {"events"} |-> 102]
    /\ guild_config[12][1].channels = [t \in {"events"} |-> 103]
    /\ resolved[4] = <<101>>

\* C15: with two cycles for one key interleaved at their awaits, no line
\* index is extracted by both; the step in which a cycle reads the stored
\* line_count is the step in which it writes the new file state, so no step
\* of the other cycle comes between the two.
C15_Step(w) ==
    LET c == cyc[w]
        k == Key(c)
    IN  /\ (c.pc = "decide" /\ cyc'[w].pc = "hot_save")
              => /\ cyc'[w].first = LastProcessed(file_states, k)
                 /\ file_states'[k].line_count = Len(c.content)
        /\ (c.pc = "decide" /\ cyc'[w].pc = "cold_save")
              => /\ LastProcessed(file_states, k) = 0
                 /\ file_states'[k].line_count = Len(c.content)
        /\ (c.pc = "extract" /\ cyc'[w].line_idx = c.line_idx + 1)
              => LET src == c.first + c.line_idx
                 IN  /\ emitted[<<c.guild_id, c.server_id>>][src] = 0
                     /\ emitted'[<<c.guild_id, c.server_id>>][src] = 1

C15_SameKeyConcurrency ==
    [][/\ \A w \in Workers : C15_Step(w)
       /\ \A k \in AllKeys : \A i \in DOMAIN emitted'[k] : emitted'[k][i] <= 1]_vars

\* Two cycles for the same key are past their reads at once, with
\* different contents, one of them extracting.
C15_Witness ==
    /\ cyc[1].pc = "extract"
    /\ cyc[2].pc = "decide"
    /\ Key(cyc[1]) = Key(cyc[2])
    /\ Len(cyc[1].content) = 2
    /\ Len(cyc[2].content) = 1
    /\ cyc[1].first = 1

\* C16: when cleanup_guild_state has run for the guild of a cycle that was
\* suspended at an await, then once the cycle finishes the guild has no
\* file state, session, lifecycle entry or connection.
C16_Step(w) ==
    LET c == cyc[w]
    IN  (c.pc # "idle" /\ c.cleaned /\ cyc'[w].pc = "idle")
            => /\ DOMAIN file_states' \cap TenantFileKeys(c.guild_id) = {}
               /\ DOMAIN player_sessions' \cap TenantPlayerKeys(c.guild_id) = {}
               /\ DOMAIN player_lifecycle' \cap TenantPlayerKeys(c.guild_id) = {}
               /\ DOMAIN sftp_connections' \cap TenantConnectionKeys(c.guild_id) = {}

C16_CleanupExclusive == [][\A w \in Workers : C16_Step(w)]_vars

\* C17: a cycle that finds in the cache a handle whose connection is lost
\* leaves the connect step with an open connection cached for the key.
C17_Step(w) ==
    LET c              == cyc[w]
        connection_key == ConnectionKey(c.guild_id, c.server_id)
    IN  (/\ c.pc = "connect"
         /\ connection_key \in DOMAIN sftp_connections
         /\ sftp_connections[connection_key] = "lost"
         /\ cyc'[w].pc = "fetch")
            => /\ connection_key \in DOMAIN sftp_connections'
               /\ sftp_connections'[connection_key] = "open"

C17_Reconnect == [][\A w \in Workers : C17_Step(w)]_vars

\* A cycle ends before it has read the content: the connect fails, or the
\* read fails (missing file, read error).
FailsEarly(w) ==
    /\ cyc[w].pc \in {"connect", "fetch"}
    /\ cyc'[w].pc = "idle"

\* The cycle of the next server of the run returns for want of credentials
\* or of a valid host.
Skipped == run # <<>> /\ Head(run) \in misconfigured /\ run' # run

InRun(k) == \E i \in DOMAIN run : run[i] = k

Started(k) ==
    \E w \in Sequential :
        /\ cyc[w].pc = "connect"
        /\ cyc[w].guild_id = k[1]
        /\ cyc[w].server_id = k[2]

OtherFileStatesUnchanged(k) ==
    \A o \in AllKeys \ {k} :
        LET server_key == ServerKey(o[1], o[2])
        IN  /\ (server_key \in DOMAIN file_states') = (server_key \in DOMAIN file_states)
            /\ server_key \in DOMAIN file_states =>
                   file_states'[server_key] = file_states[server_key]

C18_Step(w) ==
    /\ FailsEarly(w) =>
           /\ run' = run
           /\ OtherFileStatesUnchanged(<<cyc[w].guild_id, cyc[w].server_id>>)
    /\ Skipped =>
           /\ run' = Tail(run)
           /\ OtherFileStatesUnchanged(Head(run))

\* C18: within a run of run_log_parser, when the cycle of a server ends for
\* a configuration error, a failed connect, a missing file or a read error,
\* the servers after it stay listed and no other key's FileState changes;
\* and every correctly configured server listed in a run has its cycle
\* started, whatever happened to the servers before it.
C18_FailureIsolation ==
    /\ [][\A w \in Sequential : C18_Step(w)]_vars
    /\ \A k \in AllKeys : (InRun(k) /\ k \notin misconfigured) ~> Started(k)

\* Server a of guild 12 has never been connected (its connect failed in
\* this run) and the content of server b, listed after it, has been read
\* in the same run, with the server of guild 123 still to come.
C18_Witness ==
    /\ misconfigured = {}
    /\ run = <<<<123, ServerA>>>>
    /\ ConnectionKey(12, ServerA) \notin DOMAIN sftp_connections
    /\ cyc[1].pc = "decide"
    /\ cyc[1].guild_id = 12
    /\ cyc[1].server_id = ServerB
    /\ cyc[1].content # <<>>

C19_Step(w) ==
    (FailsEarly(w) \/ Skipped) =>
        /\ file_states' = file_states
        /\ player_sessions' = player_sessions
        /\ player_lifecycle' = player_lifecycle
        /\ emitted' = emitted
        /\ sent' = sent
        /\ (FailsEarly(w) /\ cyc[w].pc = "connect") =>
               ConnectionKey(cyc[w].guild_id, cyc[w].server_id)
                   \notin DOMAIN sftp_connections'

\* C19: a cycle that stops for missing credentials or an invalid host, a
\* failed connect, a missing file or a read error emits nothing and leaves
\* the file states, the sessions and the lifecycle cache as they were;
\* after a failed connect the cache of connections has no entry for the
\* key.
C19_EarlyEndChangesNothing == [][\A w \in Sequential : C19_Step(w)]_vars

\* The cycle of server a in this run found a new line and did not advance
\* the FileState: it ended early, with a session and a lifecycle entry in
\* memory, and the run has gone on to server b.
C19_Witness ==
    /\ run = <<<<12, ServerB>>>>
    /\ cyc[1].pc = "idle"
    /\ LastProcessed(file_states, ServerKey(12, ServerA)) = 2
    /\ Len(remote[<<12, ServerA>>]) = 3
    /\ player_sessions # EmptyDict
    /\ player_lifecycle # EmptyDict

\* The log of server k holds no queue-join and no registration line.
NoJoinLogged(k) ==
    \A i \in DOMAIN remote[k] :
        /\ remote[k][i].player_queue_join = NoMatch
        /\ remote[k][i].player_registered = NoMatch

C20_Step(w) ==
    LET c == cyc[w]
    IN  (/\ c.pc = "extract"
         /\ cyc'[w].line_idx = c.line_idx + 1
         /\ NoJoinLogged(<<c.guild_id, c.server_id>>)) =>
            /\ player_sessions' = player_sessions
            /\ \A i \in DOMAIN cyc'[w].embeds :
                   i > Len(c.embeds) =>
                       cyc'[w].embeds[i].player_name = UnknownPlayer

\* C20: processing a line of a server on whose log no player has joined or
\* registered changes no session and takes no name from one: the sessions
\* and lifecycle entries in memory come from other servers of the guild.
C20_ServerIsolation == [][\A w \in Sequential : C20_Step(w)]_vars

\* The id holds the keyword, whatever the case of its letters.
Holds(id, keyword) == Contains(Lower(id), keyword)

KnownKeywords == HighTier \cup HighMediumTier \cup MediumTier \cup LowMediumTier

\* C21 as stated: 5 for every id holding "bunker", 2 for every id holding
\* "sawmill", 1 for every id holding no known keyword, and always a level
\* in 1..5.
C21_Original ==
    mission_level # None =>
        /\ mission_level[1] \in 1..5
        /\ Holds(asked_mission, "bunker") => mission_level[1] = 5
        /\ Holds(asked_mission, "sawmill") => mission_level[1] = 2
        /\ (\A keyword \in KnownKeywords : ~Holds(asked_mission, keyword)) =>
               mission_level[1] = 1

\* C21: get_mission_level returns 5 for every id holding "bunker", 2 for
\* every id holding "sawmill" and no keyword of a higher tier (military,
\* bunker, khimmash, airport, promzone, kamensk, ind_, industrial), 1 for
\* every id holding no known keyword, and always a level in 1..5.
C21_TierClassification ==
    mission_level # None =>
        /\ mission_level[1] \in 1..5
        /\ Holds(asked_mission, "bunker") => mission_level[1] = 5
        /\ (/\ Holds(asked_mission, "sawmill")
            /\ \A keyword \in {"military", "bunker", "khimmash", "airport",
                               "promzone", "kamensk", "ind_", "industrial"} :
                   ~Holds(asked_mission, keyword)) =>
               mission_level[1] = 2
        /\ (\A keyword \in KnownKeywords : ~Holds(asked_mission, keyword)) =>
               mission_level[1] = 1

\* The level of a sawmill id without a keyword of a higher tier has been
\* asked for.
C21_Witness ==
    /\ asked_mission = "GA_Sawmill_Foo"
    /\ mission_level = <<2>>

\* The name the fallback rules give: the category and the last part.
Fallback(category, id) == category \o " Mission (" \o LastPart(id) \o ")"

\* C22: normalize_mission_name returns the catalog name for a catalog key;
\* otherwise the first of the rules airport, military, settlement,
\* industrial, chemical plant, bunker, sawmill whose keyword the id holds
\* gives "<Category> Mission (<last part>)"; "GA_Military_99_Foo" gives
\* "Military Mission (Foo)".
C22_MissionNormalization ==
    mission_name # None =>
        LET id   == asked_mission
            name == mission_name[1]
        IN  /\ id = "GA_Airport_mis_01_SFPSACMission" => name = "Airport Mission #1"
            /\ id = "GA_Military_99_Foo" => name = "Military Mission (Foo)"
            /\ IF id \in DOMAIN mission_mappings THEN name = mission_mappings[id]
               ELSE IF Contains(id, "_Airport_")
                    THEN name = Fallback("Airport", id)
               ELSE IF Contains(id, "_Military_")
                    THEN name = Fallback("Military", id)
               ELSE IF Contains(id, "_Settle_")
                    THEN name = Fallback("Settlement", id)
               ELSE IF Contains(id, "_Ind_") \/ Contains(id, "_PromZone_")
                    THEN name = Fallback("Industrial", id)
               ELSE IF Contains(id, "_KhimMash_")
                    THEN name = Fallback("Chemical Plant", id)
               ELSE IF Contains(id, "_Bunker_")
                    THEN name = Fallback("Bunker", id)
               ELSE IF Contains(id, "_Sawmill_")
                    THEN name = Fallback("Sawmill", id)
               ELSE TRUE

\* The name of an id outside the catalog that holds the military and the
\* bunker keyword has been asked for.
C22_Witness ==
    /\ asked_mission = "GA_Military_Bunker_Foo"
    /\ mission_name = <<"Military Mission (Foo)">>

C23_Step(w) ==
    LET c == cyc[w]
        k == Key(c)
    IN  (/\ c.pc = "decide"
         /\ c.content = <<>>
         /\ k \notin DOMAIN file_states
         /\ cyc'[w].pc = "idle"
         /\ Survives) =>
            /\ k \in DOMAIN file_states'
            /\ file_states'[k].line_count = 0
            /\ emitted' = emitted
            /\ sent' = sent

\* C23: a cycle for a key without FileState that reads an empty file
\* leaves a FileState with line_count 0 for the key and emits nothing.
C23_EmptyFileCreatesState == [][\A w \in Sequential : C23_Step(w)]_vars

SessionStates ==
    \A pk \in DOMAIN player_sessions :
        /\ player_sessions[pk].status \in {"online", "offline"}
        /\ player_sessions[pk].status = "offline" =>
               player_sessions[pk].left_at # None

\* A cycle examines a line on which 'field' captures the player of pk.
Examines(field, pk) ==
    \E w \in Sequential :
        /\ cyc[w].pc = "extract"
        /\ cyc'[w].line_idx = cyc[w].line_idx + 1
        /\ LET line == cyc[w].lines[cyc[w].line_idx + 1]
           IN  /\ line[field] # NoMatch
               /\ PlayerKey(cyc[w].guild_id, line[field][1]) = pk

CleansTenantOf(pk) ==
    \E g \in Guilds :
        /\ StartsWith(pk, GuildPrefix(g))
        /\ cleanup_guild_state(g)

C24_Step ==
    \A pk \in DOMAIN player_sessions \cup DOMAIN player_sessions' :
        /\ pk \notin DOMAIN player_sessions' => CleansTenantOf(pk)
        /\ (/\ pk \in DOMAIN player_sessions'
            /\ \/ pk \notin DOMAIN player_sessions
               \/ player_sessions'[pk] # player_sessions[pk]) =>
               \/ /\ player_sessions'[pk].status = "online"
                  /\ Examines("player_registered", pk)
               \/ /\ player_sessions'[pk].status = "offline"
                  /\ player_sessions'[pk].left_at # None
                  /\ pk \in DOMAIN player_sessions
                  /\ Examines("player_disconnect", pk)

\* C24: every session is online or offline, and offline with left_at
\* recorded; a session is written as online only when a registration line
\* for its player is examined, turns offline only when a disconnect line
\* for its player is examined, and goes away only when its guild is
\* cleaned up.
C24_SessionLifecycle == []SessionStates /\ [][C24_Step]_vars

\* A player of guild 12 has registered and left: the session is offline
\* with the time recorded.
C24_Witness ==
    /\ PlayerKey(12, PlayerX) \in DOMAIN player_sessions
    /\ player_sessions[PlayerKey(12, PlayerX)].status = "offline"
    /\ player_sessions[PlayerKey(12, PlayerX)].left_at # None

\* reset_file_states or cleanup_guild_state removes file states.
Removes ==
    \/ \E a \in ResetArguments : reset_file_states(a[1], a[2])
    \/ \E g \in Guilds : cleanup_guild_state(g)

\* C25: when reset_file_states or cleanup_guild_state removes the FileState
\* of a key, the entry is gone from the durable document as well, so that
\* a restarted process, which loads its file states from the document,
\* does not get the entry back.
C25_RemovalDurable ==
    [][Removes =>
          \A k \in DOMAIN file_states \ DOMAIN file_states' :
              k \notin DOMAIN LoadedStates(db')]_vars

\* What is left of the file states once the keys ks are deleted, and
\* nothing else.
DeletesExactly(ks) ==
    /\ DOMAIN file_states' = DOMAIN file_states \ ks
    /\ \A k \in DOMAIN file_states' : file_states'[k] = file_states[k]

C26_Step(server_key, guild_id) ==
    reset_file_states(server_key, guild_id) =>
        /\ server_key # <<>> => DeletesExactly({server_key})
        /\ (server_key = <<>> /\ guild_id # None) =>
               DeletesExactly(TenantFileKeys(guild_id[1]))

\* C26: reset_file_states(guild_id = g) deletes the file states of guild g
\* and no other, for every g, 0 included; reset_file_states(server_key = k)
\* deletes the entry k and no other.
C26_ResetExact == [][\A a \in ResetArguments : C26_Step(a[1], a[2])]_vars

\* The events of the lines that do not raise.
RECURSIVE ExpectedEvents(_)
ExpectedEvents(lines) ==
    IF lines = <<>> THEN 0
    ELSE (IF Raises(Head(lines)) THEN 0 ELSE EventCount(Head(lines)))
             + ExpectedEvents(Tail(lines))

C27_Step(w) ==
    LET c == cyc[w]
    IN  (/\ c.pc = "extract"
         /\ cyc'[w].line_idx = c.line_idx + 1
         /\ Raises(c.lines[c.line_idx + 1])) =>
            /\ cyc'[w].embeds = c.embeds
            /\ c.line_idx + 1 < Len(c.lines) => cyc'[w].pc = "extract"

\* C27: a line whose processing raises does not end the loop: the embeds
\* of the earlier lines are kept, the next line is processed, and when the
\* loop is over every line of the slice has been gone through and the
\* embeds returned are those of all the lines that did not raise.
C27_LineErrorIsolation ==
    /\ [][\A w \in Sequential : C27_Step(w)]_vars
    /\ [](\A w \in Sequential :
             cyc[w].pc = "send" =>
                 /\ cyc[w].line_idx = Len(cyc[w].lines)
                 /\ Len(cyc[w].embeds) = ExpectedEvents(cyc[w].lines))

\* A slice of three lines, the second of which raised: the loop is over
\* and the embeds of the first and the third line are returned.
C27_Witness ==
    /\ cyc[1].pc = "send"
    /\ cyc[1].lines = <<ReadyLine, OverlongLine, ReadyLine>>
    /\ Len(cyc[1].embeds) = 2
    /\ cyc[1].sources = <<1, 3>>

C28_Step(w) ==
    LET c == cyc[w]
    IN  (/\ c.pc = "extract"
         /\ cyc'[w].line_idx = c.line_idx + 1
         /\ c.lines[c.line_idx + 1].mission_respawn # NoMatch
         /\ c.lines[c.line_idx + 1].mission_respawn[2] >= 0) =>
            LET respawn == c.lines[c.line_idx + 1].mission_respawn
            IN  \E i \in (Len(c.embeds) + 1)..Len(cyc'[w].embeds) :
                    /\ cyc'[w].embeds[i].kind = "mission"
                    /\ cyc'[w].embeds[i].state = "RESPAWN"
                    /\ cyc'[w].embeds[i].mission_id = respawn[1]
                    /\ cyc'[w].embeds[i].respawn_time = <<respawn[2]>>

\* C28: every mission_respawn line of a hot-start slice yields an event
\* with state RESPAWN that carries the mission id and the seconds captured,
\* whatever the seconds, 0 included.
C28_RespawnEvent == [][\A w \in Sequential : C28_Step(w)]_vars

\* C29: the line count in memory of a key never decreases, the steps of
\* the load started at construction included.
C29_OffsetsMonotonic ==
    [][\A k \in AllKeys :
          LastProcessed(file_states', ServerKey(k[1], k[2]))
              >= LastProcessed(file_states, ServerKey(k[1], k[2]))]_vars

\* The lines of a key from the first one examined up to the recorded line
\* count have been examined once each, and no other line has.
ExaminedOnce(k) ==
    LET n == LastProcessed(file_states, ServerKey(k[1], k[2]))
    IN  \E n0 \in 0..n :
            \A i \in DOMAIN emitted[k] :
                emitted[k][i] = IF n0 <= i /\ i < n THEN 1 ELSE 0

NoLineTripsBreak(k) ==
    \A i \in 1..Len(remote[k]) : EventCount(remote[k][i]) <= 2

C30_SliceStep(w) ==
    LET c == cyc[w]
    IN  /\ (c.pc = "decide" /\ cyc'[w].pc = "hot_save") =>
               /\ cyc'[w].first = LastProcessed(file_states, Key(c))
               /\ cyc'[w].lines =
                      SubSeq(c.content, cyc'[w].first + 1, Len(c.content))
        /\ (c.pc = "extract" /\ cyc'[w].pc = "send"
                /\ cyc'[w].line_idx < Len(c.lines)) =>
               SafetyBreak(cyc'[w].processed_events, Len(c.lines))

\* C30 as stated: between cycles every line from the first one examined up
\* to the recorded line count has been examined in exactly one cycle.
C30_Original ==
    \A k \in scheduled : Quiescent => ExaminedOnce(k)

\* C30: for an append-only log with no reset, cleanup or crash, a hot-start
\* slice starts exactly at the recorded line count, its loop ends before
\* the last line of the slice only by the safety break, no line is examined
\* in two cycles, and when no line of the log yields more than two events
\* every line appended after the cold start is examined in exactly one
\* cycle.
C30_NoLinesSkipped ==
    /\ [][\A w \in Sequential : C30_SliceStep(w)]_vars
    /\ [](\A k \in scheduled :
             /\ \A i \in DOMAIN emitted[k] : emitted[k][i] <= 1
             /\ (Quiescent /\ NoLineTripsBreak(k)) => ExaminedOnce(k))

C30_Witness ==
    /\ Quiescent
    /\ remote[<<12, ServerA>>] = <<ReadyLine, ReadyLine, ReadyLine, ReadyLine>>
    /\ LastProcessed(file_states, ServerKey(12, ServerA)) = 4
    /\ emitted[<<12, ServerA>>] = [i \in 0..3 |-> IF i = 0 THEN 0 ELSE 1]

\* The connect of cycle w completes and its handle is put in the cache.
Establishes(w) ==
    /\ cyc[w].pc = "connect"
    /\ ~cyc[w].in_cache
    /\ cyc'[w].pc = "fetch"

\* C31: whatever the interleaving of the cycles for one connection key, a
\* connection is established and cached for the key only while the cache
\* holds none for it, so no cached handle is overwritten without being
\* closed.
C31_OneConnectionPerKey ==
    [][\A w \in Workers :
          Establishes(w) =>
              ConnectionKey(cyc[w].guild_id, cyc[w].server_id)
                  \notin DOMAIN sftp_connections]_vars

====
